---- MODULE Spec2Model ----
(***************************************************************************)
(* DFS-CRM: the record-matching and reconciliation engine of                *)
(* server-supabase.js (GET /integrations/match/:companyId,                  *)
(* GET /integrations/bulk-match, POST /integrations/link and /unlink)       *)
(* over the companies table and the invoice app's customers collection,     *)
(* and the activity report (GET /reports/activity) over the activities      *)
(* table.                                                                   *)
(*                                                                         *)
(* A JavaScript string is a sequence of one-character strings; null,        *)
(* undefined and '' are all the empty sequence (the handlers only test      *)
(* them for truthiness).                                                    *)
(***************************************************************************)
EXTENDS Integers, Sequences, FiniteSets, TLC

VARIABLES firestore, companies, customers, estimates, invoices, res,
          activities, timezoneOffset, employees, users, pending, storeCascades

vars == <<firestore, companies, customers, estimates, invoices, res,
          activities, timezoneOffset, employees, users, pending, storeCascades>>

(***************************************************************************)
(* Bounds                                                                   *)
(***************************************************************************)
\* longest generated company name (characters)
MaxNameLen == 2

\* most rows of the activities table
MaxActivities == 2

\* the absent value of a field that holds an id
NULL == "NULL"

\* no employee, no user, no request in flight, and a store whose foreign keys
\* cascade (the state of the parts of the store a specification leaves out)
NoAccounts ==
  /\ employees = <<>>
  /\ users = <<>>
  /\ pending = <<>>
  /\ storeCascades = TRUE

(***************************************************************************)
(* String primitives                                                        *)
(***************************************************************************)
Digits == {"0", "1", "2", "3", "4", "5", "6", "7", "8", "9"}

Truthy(s) == s # <<>>

LowerChar(ch) ==
  CASE ch = "A" -> "a"
    [] ch = "B" -> "b"
    [] ch = "C" -> "c"
    [] OTHER -> ch

toLowerCase(s) == [i \in 1..Len(s) |-> LowerChar(s[i])]

trim(s) ==
  LET keep == {i \in 1..Len(s) : s[i] # " "}
      lo == CHOOSE i \in keep : \A j \in keep : i <= j
      hi == CHOOSE i \in keep : \A j \in keep : i >= j
  IN IF keep = {} THEN <<>> ELSE SubSeq(s, lo, hi)

\* s.includes(t)
includes(s, t) ==
  \E i \in 1..(Len(s) - Len(t) + 1) : SubSeq(s, i, i + Len(t) - 1) = t

\* (x || '').toLowerCase().trim()
Normalize(s) == trim(toLowerCase(s))

\* [firstName, lastName].filter(Boolean).join(' ')
JoinName(firstName, lastName) ==
  IF ~Truthy(firstName) THEN lastName
  ELSE IF ~Truthy(lastName) THEN firstName
  ELSE firstName \o <<" ">> \o lastName

IsDigit(ch) == ch \in Digits

\* how many trailing digits of a phone number are compared
PhoneKeep == 10

\* phone.replace(/\D/g, '').slice(-10)
PhoneKey(phone) ==
  LET d == SelectSeq(phone, IsDigit)
  IN IF Len(d) <= PhoneKeep THEN d ELSE SubSeq(d, Len(d) - PhoneKeep + 1, Len(d))

PhoneMatch_NoGuard(phone1, phone2) == PhoneKey(phone1) = PhoneKey(phone2)

\* p1 && p2 && p1 === p2 on the two normalized phones
PhoneMatch(phone1, phone2) ==
  LET p1 == PhoneKey(phone1)
      p2 == PhoneKey(phone2)
  IN Truthy(p1) /\ Truthy(p2) /\ p1 = p2

Max(a, b) == IF a >= b THEN a ELSE b

(***************************************************************************)
(* The scoring rules, one copy per handler as in the source                 *)
(***************************************************************************)
NameContains_OneWay(x, y) == includes(x, y)

\* one name contains the other: x.includes(y) || y.includes(x)
NameContains(x, y) == includes(x, y) \/ includes(y, x)

\* body of snapshot.forEach in GET /integrations/match/:companyId
ScoreSingle(company, data) ==
  LET companyName == Normalize(data.companyName)
      fullName == Normalize(JoinName(data.firstName, data.lastName))
      crmName == Normalize(company.name)
      crmContact == Normalize(company.contact_name)
  IN IF Truthy(companyName) /\ Truthy(crmName) /\ companyName = crmName THEN 100
     ELSE IF Truthy(companyName) /\ Truthy(crmName) /\ NameContains(companyName, crmName)
          THEN 80
     ELSE IF Truthy(fullName) /\ Truthy(crmContact) /\ fullName = crmContact THEN 70
     ELSE IF Truthy(data.phone) /\ Truthy(company.phone)
          THEN (IF PhoneMatch(data.phone, company.phone) THEN 90 ELSE 0)
     ELSE 0

\* the invoiceCustomers entry built from a customers document
InvoiceCustomer(d) ==
  [id |-> d.id, firstName |-> d.firstName, lastName |-> d.lastName,
   companyName |-> d.companyName, phone |-> d.phone,
   name |-> JoinName(d.firstName, d.lastName)]

\* the if / else-if chain of the name rules in GET /integrations/bulk-match
NameScoreBulk(c, ic) ==
  LET crmName == Normalize(c.name)
      crmContact == Normalize(c.contact_name)
      icCompany == Normalize(ic.companyName)
      icName == Normalize(ic.name)
  IN IF Truthy(icCompany) /\ Truthy(crmName) /\ icCompany = crmName THEN 100
     ELSE IF Truthy(icCompany) /\ Truthy(crmName) /\ NameContains(icCompany, crmName)
          THEN 80
     ELSE IF Truthy(icName) /\ Truthy(crmContact) /\ icName = crmContact THEN 70
     ELSE IF Truthy(icName) /\ Truthy(crmName) /\ icName = crmName THEN 75
     ELSE 0

\* body of companies.forEach in GET /integrations/bulk-match: the name
\* rules, then the phone rule
ScoreBulk_PhoneOverrides(c, ic) ==
  IF Truthy(ic.phone) /\ Truthy(c.phone) /\ PhoneMatch(ic.phone, c.phone)
  THEN 90
  ELSE NameScoreBulk(c, ic)

ScoreBulk(c, ic) ==
  IF Truthy(ic.phone) /\ Truthy(c.phone) /\ PhoneMatch(ic.phone, c.phone)
  THEN Max(NameScoreBulk(c, ic), 90)
  ELSE NameScoreBulk(c, ic)

(***************************************************************************)
(* Stored data                                                              *)
(***************************************************************************)
\* the ids of companies, in the order clients create them
CompanyIdSeq == <<"c1", "c2">>
CompanyIds == {CompanyIdSeq[i] : i \in 1..Len(CompanyIdSeq)}
CustomerIds == {"x1", "x2", "x3"}
\* an id that names no row of either store
GhostId == "ghost"

\* rows of the companies table with the given id
RowsOf(id) == {i \in 1..Len(companies) : companies[i].id = id}

\* documents of the customers collection with the given id
DocsOf(id) == {i \in 1..Len(customers) : customers[i].id = id}

\* a response; the fields an endpoint does not send keep these defaults.
\* In the response of a match, companyId is the request's :companyId and
\* matchScore is the handler's local of that name when it returns
\* the body of a response without a report
NoReport == [byDate |-> {}, byWeek |-> {}, byMonth |-> {}, total |-> 0]

Response(op, status) ==
  [op |-> op, status |-> status, matched |-> FALSE, matchScore |-> 0,
   linked |-> FALSE, customerId |-> NULL, results |-> <<>>, autoUpdated |-> <<>>,
   companyId |-> NULL, report |-> NoReport]

NoResponse == Response("none", 0)

(***************************************************************************)
(* GET /integrations/match/:companyId                                       *)
(***************************************************************************)
\* a match is reported as found from this score on
MatchThreshold == 60

\* snapshot.forEach over the documents from position i on, with the
\* running locals acc = [matchScore, match]
RECURSIVE BestCustomer(_, _, _)
BestCustomer(company, i, acc) ==
  IF i > Len(customers) THEN acc
  ELSE LET score == ScoreSingle(company, customers[i])
       IN BestCustomer(company, i + 1,
            IF score > acc.matchScore
            THEN [matchScore |-> score, match |-> customers[i].id]
            ELSE acc)

NotMatched_Above(best) == best.match = NULL \/ best.matchScore <= 70

\* if (!match || matchScore < 60)
NotMatched(best) == best.match = NULL \/ best.matchScore < MatchThreshold

MatchResponse(companyId, ioFails) ==
  IF ~firestore THEN Response("match", 503)
  ELSE IF RowsOf(companyId) = {} \/ ioFails THEN Response("match", 500)
  ELSE LET company == companies[CHOOSE i \in RowsOf(companyId) : TRUE]
           best == BestCustomer(company, 1, [matchScore |-> 0, match |-> NULL])
       IN IF company.invoice_customer_id # NULL /\ DocsOf(company.invoice_customer_id) # {}
          THEN [Response("match", 200) EXCEPT !.matched = TRUE, !.matchScore = 100,
                  !.linked = TRUE, !.customerId = company.invoice_customer_id]
          ELSE IF NotMatched(best)
          THEN [Response("match", 200) EXCEPT !.matchScore = best.matchScore]
          ELSE [Response("match", 200) EXCEPT !.matched = TRUE,
                  !.matchScore = best.matchScore, !.customerId = best.match]

Match ==
  \E companyId \in CompanyIds, ioFails \in BOOLEAN :
    /\ res' = [MatchResponse(companyId, ioFails) EXCEPT !.companyId = companyId]
    /\ UNCHANGED <<firestore, companies, customers, estimates, invoices, activities, timezoneOffset, employees, users, pending, storeCascades>>

(***************************************************************************)
(* GET /integrations/bulk-match                                             *)
(***************************************************************************)
\* a best score from this value on is a suggestion
SuggestThreshold == 70

\* companies.find(c => c.invoice_customer_id === ic.id)
LinkedCompany(ic) ==
  LET hits == {i \in 1..Len(companies) : companies[i].invoice_customer_id = ic.id}
  IN IF hits = {} THEN 0 ELSE CHOOSE i \in hits : \A j \in hits : i <= j

Skipped_Never(c) == FALSE

\* if (c.invoice_customer_id) return: a linked company is no candidate
Skipped(c) == c.invoice_customer_id # NULL

\* companies.forEach from position i on, with the running locals
\* acc = [bestScore, bestMatch]
RECURSIVE BestCompany(_, _, _)
BestCompany(ic, i, acc) ==
  IF i > Len(companies) THEN acc
  ELSE IF Skipped(companies[i]) THEN BestCompany(ic, i + 1, acc)
  ELSE LET score == ScoreBulk(companies[i], ic)
       IN BestCompany(ic, i + 1,
            IF score > acc.bestScore
            THEN [bestScore |-> score, bestMatch |-> companies[i].id]
            ELSE acc)

StatusOf_Above(bestScore) == IF bestScore > SuggestThreshold THEN "suggested" ELSE "unmatched"

\* bestScore >= 70 ? 'suggested' : 'unmatched'
StatusOf(bestScore) == IF bestScore >= SuggestThreshold THEN "suggested" ELSE "unmatched"

\* the result row of one invoice customer
ResultRow(ic) ==
  LET linkedCompany == LinkedCompany(ic)
      best == BestCompany(ic, 1, [bestScore |-> 0, bestMatch |-> NULL])
  IN IF linkedCompany # 0
     THEN [invoiceCustomer |-> ic.id, match |-> companies[linkedCompany].id,
           score |-> 100, status |-> "linked"]
     ELSE [invoiceCustomer |-> ic.id, match |-> best.bestMatch,
           score |-> best.bestScore, status |-> StatusOf(best.bestScore)]

\* const order = { suggested: 0, unmatched: 1, linked: 2 }
StatusOrder(status) ==
  CASE status = "suggested" -> 0
    [] status = "unmatched" -> 1
    [] status = "linked" -> 2
    [] OTHER -> 9

Compare_ScoreAscending(a, b) ==
  IF StatusOrder(a.status) # StatusOrder(b.status)
  THEN StatusOrder(a.status) - StatusOrder(b.status)
  ELSE a.score - b.score

\* the comparator of results.sort: negative when a sorts before b
Compare(a, b) ==
  IF StatusOrder(a.status) # StatusOrder(b.status)
  THEN StatusOrder(a.status) - StatusOrder(b.status)
  ELSE b.score - a.score

\* Array.prototype.sort is stable: insert row into the sorted rows after
\* every row that does not sort after it
InsertSorted(rows, row) ==
  LET after == {i \in 1..Len(rows) : Compare(rows[i], row) > 0}
      pos == IF after = {} THEN Len(rows) + 1
             ELSE CHOOSE i \in after : \A j \in after : i <= j
  IN SubSeq(rows, 1, pos - 1) \o <<row>> \o SubSeq(rows, pos, Len(rows))

RECURSIVE SortResults(_)
SortResults(rows) ==
  IF rows = <<>> THEN <<>>
  ELSE InsertSorted(SortResults(SubSeq(rows, 1, Len(rows) - 1)), rows[Len(rows)])

BulkMatchResponse(ioFails) ==
  IF ~firestore THEN Response("bulk-match", 503)
  ELSE IF ioFails THEN Response("bulk-match", 500)
  ELSE [Response("bulk-match", 200) EXCEPT !.results =
          SortResults([i \in 1..Len(customers) |-> ResultRow(InvoiceCustomer(customers[i]))])]

BulkMatch ==
  \E ioFails \in BOOLEAN :
    /\ res' = BulkMatchResponse(ioFails)
    /\ UNCHANGED <<firestore, companies, customers, estimates, invoices, activities, timezoneOffset, employees, users, pending, storeCascades>>

(***************************************************************************)
(* POST /integrations/link and POST /integrations/unlink                    *)
(***************************************************************************)
\* character codes, for the comparison of date strings
CharCode(ch) ==
  CASE ch = "-" -> 45 [] ch = "0" -> 48 [] ch = "1" -> 49 [] ch = "2" -> 50
    [] ch = "3" -> 51 [] ch = "4" -> 52 [] ch = "5" -> 53 [] ch = "6" -> 54
    [] ch = "7" -> 55 [] ch = "8" -> 56 [] ch = "9" -> 57 [] OTHER -> 0

\* a > b on two strings
RECURSIVE StrGt(_, _)
StrGt(a, b) ==
  IF a = <<>> THEN FALSE
  ELSE IF b = <<>> THEN TRUE
  ELSE IF CharCode(Head(a)) # CharCode(Head(b)) THEN CharCode(Head(a)) > CharCode(Head(b))
  ELSE StrGt(Tail(a), Tail(b))

\* snap.forEach(doc => { if (d && (!latest || d > latest)) latest = d })
\* over the documents of the customer from position i on
RECURSIVE LatestDate(_, _, _, _)
LatestDate(docs, customerId, i, latest) ==
  IF i > Len(docs) THEN latest
  ELSE LET d == docs[i].date
       IN LatestDate(docs, customerId, i + 1,
            IF docs[i].customerId = customerId /\ Truthy(d)
               /\ (~Truthy(latest) \/ StrGt(d, latest))
            THEN d ELSE latest)

\* !snap.empty for the documents of the customer
HasDocs(docs, customerId) == \E i \in 1..Len(docs) : docs[i].customerId = customerId

\* what an object stored where a string is expected stands for
ObjectValue == <<"{", "}">>

\* custData.emailContacts[0].email || custData.emailContacts[0]
FirstEmail(emailContacts) ==
  LET e == emailContacts[1]
  IN IF e.isObject /\ ~Truthy(e.email) THEN ObjectValue ELSE e.email

\* the fields of the updates object; an empty value is a field not set
NoUpdates ==
  [phone |-> <<>>, email |-> <<>>, contact_name |-> <<>>, address |-> <<>>,
   city |-> <<>>, state |-> <<>>, zip |-> <<>>, last_estimate_date |-> <<>>,
   last_order_date |-> <<>>, type |-> NULL]

\* the auto-fill with the phone copied whether or not the company has one
AutoFill_Overwrite(company, custData) ==
  LET name == JoinName(custData.firstName, custData.lastName)
      addr == custData.address
      fill == ~Truthy(company.address) /\ addr.present
  IN [NoUpdates EXCEPT
        !.phone = IF Truthy(custData.phone) THEN custData.phone ELSE <<>>,
        !.email = IF ~Truthy(company.email) /\ Len(custData.emailContacts) > 0
                  THEN FirstEmail(custData.emailContacts) ELSE <<>>,
        !.contact_name = IF ~Truthy(company.contact_name) /\ Truthy(name)
                         THEN name ELSE <<>>,
        !.address = IF fill /\ Truthy(addr.street) THEN addr.street ELSE <<>>,
        !.city = IF fill /\ Truthy(addr.city) /\ ~Truthy(company.city)
                 THEN addr.city ELSE <<>>,
        !.state = IF fill /\ Truthy(addr.state) /\ ~Truthy(company.state)
                  THEN addr.state ELSE <<>>,
        !.zip = IF fill /\ Truthy(addr.zip) /\ ~Truthy(company.zip)
                THEN addr.zip ELSE <<>>]

\* the auto-fill of missing contact info from the customer document
AutoFill(company, custData) ==
  LET name == JoinName(custData.firstName, custData.lastName)
      addr == custData.address
      fill == ~Truthy(company.address) /\ addr.present
  IN [NoUpdates EXCEPT
        !.phone = IF ~Truthy(company.phone) /\ Truthy(custData.phone)
                  THEN custData.phone ELSE <<>>,
        !.email = IF ~Truthy(company.email) /\ Len(custData.emailContacts) > 0
                  THEN FirstEmail(custData.emailContacts) ELSE <<>>,
        !.contact_name = IF ~Truthy(company.contact_name) /\ Truthy(name)
                         THEN name ELSE <<>>,
        !.address = IF fill /\ Truthy(addr.street) THEN addr.street ELSE <<>>,
        !.city = IF fill /\ Truthy(addr.city) /\ ~Truthy(company.city)
                 THEN addr.city ELSE <<>>,
        !.state = IF fill /\ Truthy(addr.state) /\ ~Truthy(company.state)
                  THEN addr.state ELSE <<>>,
        !.zip = IF fill /\ Truthy(addr.zip) /\ ~Truthy(company.zip)
                THEN addr.zip ELSE <<>>]

\* the updates of a link that resets the type of a company whose customer
\* has no invoice
LinkUpdates_Downgrade(company, invoiceCustomerId) ==
  IF ~firestore THEN NoUpdates
  ELSE LET docs == DocsOf(invoiceCustomerId)
           filled == IF docs # {}
                     THEN AutoFill(company, customers[CHOOSE i \in docs : TRUE])
                     ELSE NoUpdates
       IN [filled EXCEPT
             !.last_estimate_date = LatestDate(estimates, invoiceCustomerId, 1, <<>>),
             !.last_order_date = LatestDate(invoices, invoiceCustomerId, 1, <<>>),
             !.type = IF HasDocs(invoices, invoiceCustomerId) THEN "Customer"
                      ELSE "Prospect"]

\* the updates object of link, without invoice_customer_id and updated_at
LinkUpdates(company, invoiceCustomerId) ==
  IF ~firestore THEN NoUpdates
  ELSE LET docs == DocsOf(invoiceCustomerId)
           filled == IF docs # {}
                     THEN AutoFill(company, customers[CHOOSE i \in docs : TRUE])
                     ELSE NoUpdates
       IN [filled EXCEPT
             !.last_estimate_date = LatestDate(estimates, invoiceCustomerId, 1, <<>>),
             !.last_order_date = LatestDate(invoices, invoiceCustomerId, 1, <<>>),
             !.type = IF HasDocs(invoices, invoiceCustomerId) /\ company.type # "Customer"
                      THEN "Customer" ELSE NULL]

\* a field of the row after the update: set fields replace, the others stay
Updated(old, new) == IF Truthy(new) THEN new ELSE old

\* supabase.from('companies').update(updates).eq('id', companyId)
ApplyLink(company, invoiceCustomerId, updates) ==
  [company EXCEPT
     !.invoice_customer_id = invoiceCustomerId,
     !.phone = Updated(@, updates.phone),
     !.email = Updated(@, updates.email),
     !.contact_name = Updated(@, updates.contact_name),
     !.address = Updated(@, updates.address),
     !.city = Updated(@, updates.city),
     !.state = Updated(@, updates.state),
     !.zip = Updated(@, updates.zip),
     !.last_estimate_date = Updated(@, updates.last_estimate_date),
     !.last_order_date = Updated(@, updates.last_order_date),
     !.type = IF updates.type # NULL THEN updates.type ELSE @]

\* the autoUpdated summary
AutoUpdated(company, updates) ==
  (IF updates.type = "Customer" /\ company.type # "Customer" THEN <<"type">> ELSE <<>>)
  \o (IF Truthy(updates.last_order_date) THEN <<"last order date synced">> ELSE <<>>)
  \o (IF Truthy(updates.last_estimate_date) THEN <<"last estimate date synced">> ELSE <<>>)
  \o (IF Truthy(updates.phone) /\ ~Truthy(company.phone) THEN <<"phone added">> ELSE <<>>)
  \o (IF Truthy(updates.email) /\ ~Truthy(company.email) THEN <<"email added">> ELSE <<>>)
  \o (IF Truthy(updates.contact_name) /\ ~Truthy(company.contact_name)
      THEN <<"contact name added">> ELSE <<>>)
  \o (IF Truthy(updates.city) /\ ~Truthy(company.city) THEN <<"address added">> ELSE <<>>)

\* the request fails before the write: missing argument, no such company,
\* or a failed read of the invoice app
LinkStatus(companyId, invoiceCustomerId, ioFails) ==
  IF companyId = NULL \/ invoiceCustomerId = NULL THEN 400
  ELSE IF RowsOf(companyId) = {} THEN 500
  ELSE IF firestore /\ ioFails THEN 500
  ELSE 200

\* one request: the body { companyId, invoiceCustomerId }, and whether a read
\* of the invoice app throws
LinkRequest(companyId, invoiceCustomerId, ioFails) ==
  LET status == LinkStatus(companyId, invoiceCustomerId, ioFails)
      row == CHOOSE i \in RowsOf(companyId) : TRUE
      updates == LinkUpdates(companies[row], invoiceCustomerId)
  IN /\ companies' = IF status = 200
                     THEN [companies EXCEPT ![row] = ApplyLink(@, invoiceCustomerId, updates)]
                     ELSE companies
     /\ res' = IF status = 200
               THEN [Response("link", 200) EXCEPT
                       !.autoUpdated = AutoUpdated(companies[row], updates)]
               ELSE Response("link", status)
     /\ UNCHANGED <<firestore, customers, estimates, invoices, activities, timezoneOffset, employees, users, pending, storeCascades>>

Link ==
  \E companyId \in CompanyIds \cup {NULL},
     invoiceCustomerId \in CustomerIds \cup {GhostId, NULL},
     ioFails \in BOOLEAN :
    LinkRequest(companyId, invoiceCustomerId, ioFails)

\* the unlink whose update has no .eq('id', companyId) filter
UnlinkRequest_AllRows(companyId, ioFails) ==
  LET status == IF companyId = NULL THEN 400 ELSE IF ioFails THEN 500 ELSE 200
  IN /\ companies' = [i \in 1..Len(companies) |->
                       IF status = 200
                       THEN [companies[i] EXCEPT !.invoice_customer_id = NULL]
                       ELSE companies[i]]
     /\ res' = Response("unlink", status)
     /\ UNCHANGED <<firestore, customers, estimates, invoices, activities, timezoneOffset, employees, users, pending, storeCascades>>

\* one request: the body { companyId }, and whether the update fails
UnlinkRequest(companyId, ioFails) ==
  LET status == IF companyId = NULL THEN 400 ELSE IF ioFails THEN 500 ELSE 200
  IN /\ companies' = [i \in 1..Len(companies) |->
                       IF status = 200 /\ companies[i].id = companyId
                       THEN [companies[i] EXCEPT !.invoice_customer_id = NULL]
                       ELSE companies[i]]
     /\ res' = Response("unlink", status)
     /\ UNCHANGED <<firestore, customers, estimates, invoices, activities, timezoneOffset, employees, users, pending, storeCascades>>

Unlink ==
  \E companyId \in CompanyIds \cup {NULL}, ioFails \in BOOLEAN :
    UnlinkRequest(companyId, ioFails)

(***************************************************************************)
(* POST /companies                                                          *)
(***************************************************************************)
\* the 'required' rule of validate
Required(value) == Truthy(value) /\ Truthy(trim(value))

\* the notes column: the JSON of a list of notes, or any other text (null and
\* '' are the empty text)
JsonNotes(list) == [json |-> TRUE, text |-> <<>>, list |-> list]
TextNotes(text) == [json |-> FALSE, text |-> text, list |-> <<>>]
NoNotes == TextNotes(<<>>)

\* the inserted row
NewCompany(id, body) ==
  [id |-> id, name |-> body.name, type |-> body.type,
   contact_name |-> body.contact_name, address |-> body.address,
   city |-> body.city, state |-> body.state, zip |-> body.zip,
   phone |-> body.phone, email |-> body.email, notes |-> body.notes,
   is_customer |-> IF body.is_customer THEN 1 ELSE 0,
   last_order_date |-> <<>>, last_estimate_date |-> <<>>,
   invoice_customer_id |-> NULL]

\* a request body with the given name, contact and phone and nothing else
Body(name, contact_name, phone) ==
  [name |-> name, type |-> "Prospect", contact_name |-> contact_name,
   address |-> <<>>, city |-> <<>>, state |-> <<>>, zip |-> <<>>,
   phone |-> phone, email |-> <<>>, notes |-> NoNotes, is_customer |-> FALSE]

Phone10 == <<"3", "0", "2", "5", "5", "5", "1", "2", "1", "2">>
PhoneFormatted == <<"(", "3", "0", "2", ")", " ", "5", "5", "5", "-", "1", "2", "1", "2">>
PhoneCountry == <<"+", "1", " ">> \o Phone10
PhoneOther == <<"3", "0", "2", "5", "5", "5", "9", "9", "9", "9">>

\* the request bodies of the state machine
CompanyBodies ==
  { Body(<<"B">>, <<>>, PhoneFormatted),
    Body(<<"a", " ", "B">>, <<"a">>, PhoneOther),
    Body(<<" ", "a">>, <<"A">>, <<"-">>),
    Body(<<" ">>, <<>>, <<>>) }

\* a client sends a fresh id, or by mistake one already stored
CreateCompany ==
  /\ Len(companies) < Len(CompanyIdSeq)
  /\ \E id \in {CompanyIdSeq[i] : i \in 1..(Len(companies) + 1)}, body \in CompanyBodies :
       LET status == IF ~Required(body.name) THEN 400
                     ELSE IF RowsOf(id) # {} THEN 500
                     ELSE 201
       IN /\ companies' = IF status = 201 THEN Append(companies, NewCompany(id, body))
                          ELSE companies
          /\ res' = Response("create", status)
          /\ UNCHANGED <<firestore, customers, estimates, invoices, activities, timezoneOffset, employees, users, pending, storeCascades>>

(***************************************************************************)
(* The invoice app's collections (read only)                                *)
(***************************************************************************)
NoAddress == [present |-> FALSE, street |-> <<>>, city |-> <<>>, state |-> <<>>, zip |-> <<>>]

Customer(id, companyName, firstName, lastName, phone) ==
  [id |-> id, companyName |-> companyName, firstName |-> firstName,
   lastName |-> lastName, phone |-> phone, emailContacts |-> <<>>,
   address |-> NoAddress]

CustomerX1 == Customer("x1", <<"b">>, <<>>, <<>>, <<>>)
CustomerX2 == Customer("x2", <<>>, <<"a">>, <<>>, PhoneCountry)
CustomerX3 == Customer("x3", <<"d">>, <<>>, <<>>, <<>>)

\* the customers collection, in the order the snapshot yields it
CustomerCollections ==
  { <<CustomerX1, CustomerX2, CustomerX3>>, <<CustomerX3, CustomerX2, CustomerX1>> }

EstimateDocs == << [customerId |-> "x1", date |-> <<"2", "0", "2", "4", "-", "0", "3">>] >>
InvoiceDocs ==
  << [customerId |-> "x1", date |-> <<"2", "0", "2", "4", "-", "0", "1">>],
     [customerId |-> "x1", date |-> <<"2", "0", "2", "4", "-", "1", "0">>] >>

(***************************************************************************)
(* The state machine: an empty companies table, then any requests           *)
(***************************************************************************)
Init ==
  /\ firestore \in BOOLEAN
  /\ companies = <<>>
  /\ customers \in CustomerCollections
  /\ estimates = EstimateDocs
  /\ invoices = InvoiceDocs
  /\ res = NoResponse
  /\ activities = <<>>
  /\ timezoneOffset = 0
  /\ NoAccounts

Next == CreateCompany \/ Match \/ BulkMatch \/ Link \/ Unlink

Spec == Init /\ [][Next]_vars

(***************************************************************************)
(* The scoring of one pair: a table of one company, as POST /companies      *)
(* stores it, a collection of one customer, and the two match requests      *)
(***************************************************************************)
\* all strings over chars of at most n characters
StringsUpTo(chars, n) == UNION {[1..k -> chars] : k \in 0..n}

PairCompanyNames == {s \in StringsUpTo({"a", "B", " "}, MaxNameLen) : Required(s)}
PairCustomerNames == StringsUpTo({"a", "b", " "}, MaxNameLen)
PairContacts == {<<>>, <<"A">>}
PairFirstNames == {<<>>, <<"a">>}
PairLastNames == {<<>>, <<"b">>}
PairCompanyPhones == {<<>>, <<"-">>, PhoneFormatted}
PairCustomerPhones == {<<>>, <<"(", ")">>, PhoneCountry, PhoneOther}

InitScore ==
  /\ firestore = TRUE
  /\ \E name \in PairCompanyNames, contact_name \in PairContacts, phone \in PairCompanyPhones :
       companies = <<NewCompany("c1", Body(name, contact_name, phone))>>
  /\ \E companyName \in PairCustomerNames, firstName \in PairFirstNames,
        lastName \in PairLastNames, phone \in PairCustomerPhones :
       customers = <<Customer("x1", companyName, firstName, lastName, phone)>>
  /\ estimates = <<>>
  /\ invoices = <<>>
  /\ res = NoResponse
  /\ activities = <<>>
  /\ timezoneOffset = 0
  /\ NoAccounts

NextScore == Match \/ BulkMatch

SpecScore == InitScore /\ [][NextScore]_vars

(***************************************************************************)
(* The enrichment of one company: a table of one company with its contact  *)
(* and address fields set or empty, customers with and without contact     *)
(* data, estimates and invoices, and the link and unlink requests          *)
(***************************************************************************)
\* a row as POST /companies stores it, the fields set or empty as the flags say
LinkCompany(hasContact, hasStreet, hasCity, hasStateZip, type) ==
  NewCompany("c1",
    [name |-> <<"B">>, type |-> type,
     contact_name |-> IF hasContact THEN <<"A">> ELSE <<>>,
     phone |-> IF hasContact THEN PhoneOther ELSE <<>>,
     email |-> IF hasContact THEN <<"m", "0">> ELSE <<>>,
     address |-> IF hasStreet THEN <<"s", "0">> ELSE <<>>,
     city |-> IF hasCity THEN <<"t", "0">> ELSE <<>>,
     state |-> IF hasStateZip THEN <<"u", "0">> ELSE <<>>,
     zip |-> IF hasStateZip THEN <<"z", "0">> ELSE <<>>,
     notes |-> NoNotes, is_customer |-> FALSE])

LinkCompanies ==
  {LinkCompany(hasContact, hasStreet, hasCity, hasStateZip, type) :
     hasContact \in BOOLEAN, hasStreet \in BOOLEAN, hasCity \in BOOLEAN,
     hasStateZip \in BOOLEAN, type \in {"Prospect", "Customer"}}

\* a customer with every contact field, the e-mail contact an object
LinkCustomerX1 ==
  [Customer("x1", <<"b">>, <<"a">>, <<"b">>, PhoneCountry) EXCEPT
     !.emailContacts = <<[isObject |-> TRUE, email |-> <<"m", "1">>]>>,
     !.address = [present |-> TRUE, street |-> <<"s", "1">>, city |-> <<"t", "1">>,
                  state |-> <<"u", "1">>, zip |-> <<"z", "1">>]]

\* a customer with a plain-string e-mail contact and an address without street
\* and state
LinkCustomerX2 ==
  [Customer("x2", <<"d">>, <<>>, <<>>, <<>>) EXCEPT
     !.emailContacts = <<[isObject |-> FALSE, email |-> <<"m", "2">>]>>,
     !.address = [present |-> TRUE, street |-> <<>>, city |-> <<"t", "2">>,
                  state |-> <<>>, zip |-> <<"z", "2">>]]

\* a customer with no address and an e-mail contact object without email
LinkCustomerX3 ==
  [Customer("x3", <<>>, <<>>, <<"b">>, <<>>) EXCEPT
     !.emailContacts = <<[isObject |-> TRUE, email |-> <<>>]>>]

\* x1 has dated estimates and invoices, x2 an undated estimate and an undated
\* invoice, x3 neither
LinkEstimateDocs ==
  << [customerId |-> "x1", date |-> <<"2", "0", "2", "4", "-", "0", "3">>],
     [customerId |-> "x2", date |-> <<>>] >>
LinkInvoiceDocs ==
  << [customerId |-> "x1", date |-> <<"2", "0", "2", "4", "-", "0", "1">>],
     [customerId |-> "x1", date |-> <<"2", "0", "2", "4", "-", "1", "0">>],
     [customerId |-> "x2", date |-> <<>>] >>

InitLink ==
  /\ firestore \in BOOLEAN
  /\ \E company \in LinkCompanies : companies = <<company>>
  /\ customers = <<LinkCustomerX1, LinkCustomerX2, LinkCustomerX3>>
  /\ estimates = LinkEstimateDocs
  /\ invoices = LinkInvoiceDocs
  /\ res = NoResponse
  /\ activities = <<>>
  /\ timezoneOffset = 0
  /\ NoAccounts

NextLink == Link \/ Unlink

SpecLink == InitLink /\ [][NextLink]_vars

(***************************************************************************)
(* GET /reports/activity                                                    *)
(*                                                                         *)
(* A calendar date of 2024 is a record [year, month, day]; an instant (a    *)
(* JavaScript Date) is a number of hours since 2024-01-01T00:00Z.  The      *)
(* stored date of an activity is the date string the table returns: a       *)
(* date alone ("2024-03-06") or a date with a time of day and no zone       *)
(* ("2024-03-06T20:00:00", the TIMESTAMP column).  timezoneOffset is the    *)
(* server's local time minus UTC, in hours.                                 *)
(***************************************************************************)
DaysInMonth(month) ==
  CASE month = 2 -> 29
    [] month \in {4, 6, 9, 11} -> 30
    [] OTHER -> 31

\* the days of the year before the first day of the month
RECURSIVE DaysBefore(_)
DaysBefore(month) ==
  IF month = 1 THEN 0 ELSE DaysBefore(month - 1) + DaysInMonth(month - 1)

\* the day number of the day-th day of the month, 0 for January 1st; the day
\* may lie before or after the month, as in setDate
MakeDay(month, day) == DaysBefore(month) + day - 1

\* the calendar date of a day number
DateFromDay(n) ==
  LET month == CHOOSE m \in 1..12 : DaysBefore(m) <= n /\ n < DaysBefore(m) + DaysInMonth(m)
  IN [year |-> 2024, month |-> month, day |-> n - DaysBefore(month) + 1]

\* the day of the week of a day number, 0 for Sunday: 2024-01-01 is a Monday
WeekDay(n) == (n + 1) % 7

\* new Date(a.date): a date alone is midnight UTC, a date with a time and no
\* zone is local time
Parse(date) ==
  IF date.hasTime
  THEN MakeDay(date.month, date.day) * 24 + date.hour - timezoneOffset
  ELSE MakeDay(date.month, date.day) * 24

\* the local day number of an instant
LocalDay(t) == (t + timezoneOffset) \div 24

\* date.getDay() and date.getDate(), in local time
getDay(t) == WeekDay(LocalDay(t))
getDate(t) == DateFromDay(LocalDay(t)).day

\* weekStart.setDate(day): the local day of the month replaced, the local
\* time of day kept
setDate(t, day) ==
  MakeDay(DateFromDay(LocalDay(t)).month, day) * 24 + ((t + timezoneOffset) % 24)
    - timezoneOffset

\* toISOString().split('T')[0]: the UTC date of an instant
toISODate(t) == DateFromDay(t \div 24)

\* a.date.split('T')[0]
DateKey(date) == [year |-> date.year, month |-> date.month, day |-> date.day]

\* weekStart.setDate(date.getDate() - date.getDay()); weekStart.toISOString()...
WeekKey(date) ==
  LET t == Parse(date)
  IN toISODate(setDate(t, getDate(t) - getDay(t)))

\* a.date.substring(0, 7)
MonthKey(date) == [year |-> date.year, month |-> date.month]

\* the absent start_date or end_date
NoDate == [year |-> 0, month |-> 0, day |-> 0]

\* the rows of the query: date >= start_date and date <= end_date, a bound
\* being the midnight of its date
Selected(start_date, end_date) ==
  {i \in 1..Len(activities) :
     LET at == MakeDay(activities[i].date.month, activities[i].date.day) * 24
               + activities[i].date.hour
     IN /\ start_date # NoDate => at >= MakeDay(start_date.month, start_date.day) * 24
        /\ end_date # NoDate => at <= MakeDay(end_date.month, end_date.day) * 24}

\* the counters of the rows of one key
Bucket(key, rows) ==
  [key |-> key,
   calls |-> Cardinality({i \in rows : activities[i].type = "call"}),
   emails |-> Cardinality({i \in rows : activities[i].type = "email"}),
   answered |-> Cardinality({i \in rows : activities[i].answered = 1}),
   interested |-> Cardinality({i \in rows : activities[i].interested = 1})]

\* the byDate object: one bucket for each a.date.split('T')[0]
ByDate(rows) ==
  {Bucket(k, {i \in rows : DateKey(activities[i].date) = k}) :
     k \in {DateKey(activities[i].date) : i \in rows}}

\* the byWeek object: one bucket for each weekKey
ByWeek(rows) ==
  {Bucket(k, {i \in rows : WeekKey(activities[i].date) = k}) :
     k \in {WeekKey(activities[i].date) : i \in rows}}

\* the byMonth object: one bucket for each monthKey
ByMonth(rows) ==
  {Bucket(k, {i \in rows : MonthKey(activities[i].date) = k}) :
     k \in {MonthKey(activities[i].date) : i \in rows}}

\* { byDate, byWeek, byMonth, total }
Report(start_date, end_date) ==
  LET rows == Selected(start_date, end_date)
  IN [byDate |-> ByDate(rows), byWeek |-> ByWeek(rows),
      byMonth |-> ByMonth(rows), total |-> Cardinality(rows)]

(***************************************************************************)
(* The activity report: a table of at most MaxActivities activities as      *)
(* POST /activities stores them, a server in one of three time zones, and   *)
(* the report requests                                                      *)
(***************************************************************************)
\* Thursday 2024-02-29, Sunday 2024-03-03 and Wednesday 2024-03-06
ReportDays == {[year |-> 2024, month |-> 2, day |-> 29],
               [year |-> 2024, month |-> 3, day |-> 3],
               [year |-> 2024, month |-> 3, day |-> 6]}

\* the stored dates: each day as a date alone, as a midnight timestamp and as
\* an evening timestamp
StoredDates ==
  {[year |-> d.year, month |-> d.month, day |-> d.day, hasTime |-> form.hasTime,
    hour |-> form.hour] :
     d \in ReportDays,
     form \in {[hasTime |-> FALSE, hour |-> 0], [hasTime |-> TRUE, hour |-> 0],
               [hasTime |-> TRUE, hour |-> 20]}}

\* a row of the activities table
Activity(company_id, employee_id, type, answered, interested, follow_up, date) ==
  [company_id |-> company_id, employee_id |-> employee_id, type |-> type,
   answered |-> answered, interested |-> interested, follow_up |-> follow_up,
   date |-> date]

Activities ==
  {Activity("c1", "e1", kind.type, kind.answered, kind.interested, 0, date) :
     date \in StoredDates,
     kind \in {[type |-> "call", answered |-> 1, interested |-> 1],
               [type |-> "call", answered |-> 0, interested |-> 0],
               [type |-> "email", answered |-> 0, interested |-> 0]}}

ReportRangeStarts == {NoDate, [year |-> 2024, month |-> 3, day |-> 3]}
ReportRangeEnds == {NoDate, [year |-> 2024, month |-> 3, day |-> 6]}

\* US Eastern standard time, UTC, and Australian Eastern standard time
TimezoneOffsets == {-5, 0, 10}

\* one request: the query { start_date, end_date }, and whether the query of
\* the activities table fails
ActivityReport ==
  \E start_date \in ReportRangeStarts, end_date \in ReportRangeEnds, ioFails \in BOOLEAN :
    /\ res' = IF ioFails THEN Response("activity-report", 500)
              ELSE [Response("activity-report", 200) EXCEPT
                      !.report = Report(start_date, end_date)]
    /\ UNCHANGED <<firestore, companies, customers, estimates, invoices, activities,
                   timezoneOffset, employees, users, pending, storeCascades>>

InitReport ==
  /\ firestore = FALSE
  /\ companies = <<>>
  /\ customers = <<>>
  /\ estimates = <<>>
  /\ invoices = <<>>
  /\ res = NoResponse
  /\ activities \in UNION {[1..n -> Activities] : n \in 0..MaxActivities}
  /\ timezoneOffset \in TimezoneOffsets
  /\ NoAccounts

NextReport == ActivityReport

SpecReport == InitReport /\ [][NextReport]_vars

(***************************************************************************)
(* Properties of the scoring of one pair (SpecScore)                        *)
(***************************************************************************)
PairCompany == companies[1]
PairCustomer == customers[1]

\* the single-company match has scored the pair: matchScore is its score
SingleScored ==
  /\ res.op = "match" /\ res.status = 200
  /\ res.companyId = PairCompany.id /\ ~res.linked

\* the bulk match has scored the pair: the score of the only row
BulkScored == res.op = "bulk-match" /\ res.status = 200 /\ Len(res.results) = 1

BulkScore == res.results[1].score

\* lowercased and trimmed
PairCrmName == trim(toLowerCase(PairCompany.name))
PairCrmContact == trim(toLowerCase(PairCompany.contact_name))
PairIcCompany == trim(toLowerCase(PairCustomer.companyName))
PairIcName == trim(toLowerCase(JoinName(PairCustomer.firstName, PairCustomer.lastName)))

\* the digits of a phone, at most the last ten
LastTen(phone) ==
  LET d == SelectSeq(phone, LAMBDA ch : ch \in Digits)
  IN [i \in 1..(IF Len(d) > 10 THEN 10 ELSE Len(d)) |->
        d[i + (IF Len(d) > 10 THEN Len(d) - 10 ELSE 0)]]

PairPhonesMatch ==
  /\ LastTen(PairCompany.phone) # <<>>
  /\ LastTen(PairCompany.phone) = LastTen(PairCustomer.phone)

PairNamesEqual == PairCrmName # <<>> /\ PairCrmName = PairIcCompany

PairProperSubstring ==
  /\ PairCrmName # <<>> /\ PairIcCompany # <<>> /\ PairCrmName # PairIcCompany
  /\ \/ includes(PairCrmName, PairIcCompany)
     \/ includes(PairIcCompany, PairCrmName)

PairContactRule == PairIcName # <<>> /\ PairIcName = PairCrmContact

PairSoleProprietorRule == PairIcName # <<>> /\ PairIcName = PairCrmName

\* C1: a pair whose normalized company names are identical scores exactly
\* 100 in the single-company match and in the bulk match, whatever the
\* contact name, the full name and the phones are.
C1_ExactNameScores100 ==
  PairCrmName = PairIcCompany =>
    /\ SingleScored => res.matchScore = 100
    /\ BulkScored => BulkScore = 100

\* identical names that differ as stored, phones that match, bulk match done
C1_Witness ==
  /\ PairCrmName = PairIcCompany
  /\ PairCompany.name # PairCustomer.companyName
  /\ PairPhonesMatch
  /\ BulkScored /\ BulkScore = 100

\* C2 as stated: a pair of which one normalized name is a non-empty proper
\* substring of the other scores exactly 80, whatever the contact name, the
\* full name and the phones are (phones that match included).
C2_SubstringScores80 ==
  PairProperSubstring =>
    /\ SingleScored => res.matchScore = 80
    /\ BulkScored => BulkScore = 80

\* C2 amended: such a pair scores exactly 80 when the last-ten-digit phones
\* do not match, and the bulk match scores it 90 when they do.
C2_SubstringScores80UnlessPhone ==
  PairProperSubstring =>
    /\ SingleScored /\ ~PairPhonesMatch => res.matchScore = 80
    /\ BulkScored => BulkScore = IF PairPhonesMatch THEN 90 ELSE 80

\* the company's name inside the customer's, phones that do not match
C2_Witness ==
  /\ PairProperSubstring
  /\ includes(PairIcCompany, PairCrmName)
  /\ LastTen(PairCompany.phone) # <<>> /\ LastTen(PairCustomer.phone) # <<>>
  /\ ~PairPhonesMatch
  /\ BulkScored /\ BulkScore = 80

\* C3: when the last-ten-digit phones are non-empty and equal the score is at
\* least 90 whatever the name rules give, and an exact name stays at 100, in
\* the single-company match as well as in the bulk match.
C3_PhoneMatchAtLeast90 ==
  PairPhonesMatch =>
    /\ SingleScored => res.matchScore >= 90
    /\ BulkScored => BulkScore >= 90
    /\ SingleScored /\ PairNamesEqual => res.matchScore = 100
    /\ BulkScored /\ PairNamesEqual => BulkScore = 100

\* the highest of the name rules that apply to the pair
PairMaxNameRule ==
  IF PairNamesEqual THEN 100
  ELSE IF PairProperSubstring THEN 80
  ELSE IF PairSoleProprietorRule THEN 75
  ELSE IF PairContactRule THEN 70
  ELSE 0

\* C4: the score of the bulk match is the maximum of the name rules that
\* apply (100, 80, 75, 70), raised to at least 90 by a phone match; a pair to
\* which the contact rule and the sole-proprietor rule both apply scores 75.
C4_MaxOfRules ==
  BulkScored =>
    BulkScore = IF PairPhonesMatch /\ PairMaxNameRule < 90 THEN 90 ELSE PairMaxNameRule

\* C5: the single-company match and the bulk match give a pair the same
\* score.
C5_SameEngine ==
  /\ SingleScored => res.matchScore = ScoreBulk(PairCompany, InvoiceCustomer(PairCustomer))
  /\ BulkScored => BulkScore = ScoreSingle(PairCompany, PairCustomer)

\* C10: no rule fires on two empty values: two phones without digits give no
\* score of 90, an empty full name and an empty contact name give no score
\* of 70, and a pair with nothing to compare but the company's own name
\* scores 0.
C10_NoMatchOnEmpty ==
  SingleScored \/ BulkScored =>
    LET score == IF SingleScored THEN res.matchScore ELSE BulkScore
    IN /\ LastTen(PairCompany.phone) = <<>> /\ LastTen(PairCustomer.phone) = <<>>
            => score # 90
       /\ PairIcName = <<>> /\ PairCrmContact = <<>> => score # 70
       /\ ( /\ PairIcCompany = <<>> /\ PairIcName = <<>> /\ PairCrmContact = <<>>
            /\ LastTen(PairCompany.phone) = <<>> /\ LastTen(PairCustomer.phone) = <<>> )
            => score = 0

\* two phones that are not empty and hold no digit, nothing else to compare
C10_Witness ==
  /\ PairCompany.phone # <<>> /\ PairCustomer.phone # <<>>
  /\ LastTen(PairCompany.phone) = <<>> /\ LastTen(PairCustomer.phone) = <<>>
  /\ PairIcName = <<>> /\ PairCrmContact = <<>> /\ PairIcCompany = <<>>
  /\ BulkScored /\ BulkScore = 0

(***************************************************************************)
(* Properties of the bulk match and of the single-company match (Spec)      *)
(***************************************************************************)
BulkDone == res.op = "bulk-match" /\ res.status = 200

Rows == {res.results[i] : i \in 1..Len(res.results)}

\* the stored company with the given id
CompanyOf(id) == companies[CHOOSE i \in 1..Len(companies) : companies[i].id = id]

\* the customer document with the given id
CustomerOf(id) == customers[CHOOSE i \in 1..Len(customers) : customers[i].id = id]

StoredCompanies == {companies[i] : i \in 1..Len(companies)}

UnlinkedCompanies == {c \in StoredCompanies : c.invoice_customer_id = NULL}

\* the largest number of a finite set of naturals, 0 for the empty set
Largest(S) == IF S = {} THEN 0 ELSE CHOOSE n \in S : \A m \in S : m <= n

\* C6: the bulk match never proposes a company that already has a link: the
\* candidate of every suggested or unmatched row is null or a company
\* without invoice_customer_id.
C6_NoLinkedCandidate ==
  BulkDone =>
    \A r \in Rows :
      r.status \in {"suggested", "unmatched"} =>
        r.match = NULL \/ CompanyOf(r.match).invoice_customer_id = NULL

\* a company linked to another customer would have been the best candidate
C6_Witness ==
  /\ BulkDone
  /\ \E r \in Rows, c \in StoredCompanies :
       /\ r.status = "suggested" /\ r.match # NULL
       /\ c.invoice_customer_id \notin {NULL, r.invoiceCustomer}
       /\ ScoreBulk(c, InvoiceCustomer(CustomerOf(r.invoiceCustomer))) > r.score

\* the place of a status in the output: suggested, unmatched, linked
GroupOf(status) ==
  IF status = "suggested" THEN 1 ELSE IF status = "unmatched" THEN 2 ELSE 3

\* C7: the rows of the bulk match are grouped and ordered: suggested rows
\* before unmatched rows before linked rows, and inside a group the score
\* never increases.
C7_PartitionedAndOrdered ==
  BulkDone =>
    \A i, j \in 1..Len(res.results) :
      i < j =>
        /\ GroupOf(res.results[i].status) <= GroupOf(res.results[j].status)
        /\ res.results[i].status = res.results[j].status
             => res.results[i].score >= res.results[j].score

\* two suggested rows of different scores before a row of another group,
\* in an order that is not the order of the customers collection
C7_Witness ==
  /\ BulkDone
  /\ \E i, j, k \in 1..Len(res.results) :
       /\ i < j /\ j < k
       /\ res.results[i].status = "suggested"
       /\ res.results[j].status = "suggested"
       /\ res.results[i].score > res.results[j].score
       /\ res.results[k].status # "suggested"
  /\ [i \in 1..Len(res.results) |-> res.results[i].invoiceCustomer]
       # [i \in 1..Len(customers) |-> customers[i].id]

\* C8: one row per customer; the row is linked with score 100 iff a company
\* holds the customer's id; otherwise the candidate is the highest-scoring
\* company without a link, the row is suggested iff that score is at least
\* 70 and unmatched otherwise, and the candidate is null iff no company
\* without a link scores above 0.
C8_OneRowPerCustomer ==
  BulkDone =>
    /\ Len(res.results) = Len(customers)
    /\ \A k \in 1..Len(customers) :
         \E i \in 1..Len(res.results) :
           /\ res.results[i].invoiceCustomer = customers[k].id
           /\ \A j \in 1..Len(res.results) :
                res.results[j].invoiceCustomer = customers[k].id => j = i
    /\ \A r \in Rows :
         LET ic == InvoiceCustomer(CustomerOf(r.invoiceCustomer))
             holders == {c \in StoredCompanies : c.invoice_customer_id = ic.id}
             best == Largest({ScoreBulk(c, ic) : c \in UnlinkedCompanies})
         IN /\ r.status = "linked" <=> holders # {}
            /\ r.status = "linked" =>
                 r.score = 100 /\ r.match \in {c.id : c \in holders}
            /\ r.status # "linked" =>
                 /\ r.score = best
                 /\ r.status = (IF best >= 70 THEN "suggested" ELSE "unmatched")
                 /\ r.match = NULL <=> best = 0
                 /\ r.match # NULL =>
                      /\ CompanyOf(r.match) \in UnlinkedCompanies
                      /\ ScoreBulk(CompanyOf(r.match), ic) = best

\* a linked row, a row suggested at exactly 70 among two companies without
\* a link that score differently, and an unmatched row without a candidate
C8_Witness ==
  /\ BulkDone
  /\ \E r \in Rows : r.status = "linked"
  /\ \E r \in Rows : r.status = "unmatched" /\ r.match = NULL
  /\ \E r \in Rows : r.status = "suggested" /\ r.score = 70

\* C9: the single-company match on a company without a stored link reports
\* a match iff the best score over all customers is at least 60 and then
\* returns a customer of that best score; below 60 it reports no match.  The
\* bulk match suggests from 70 on, a different threshold.
C9_MatchThreshold ==
  /\ ( /\ res.op = "match" /\ res.status = 200
       /\ CompanyOf(res.companyId).invoice_customer_id = NULL )
     => LET company == CompanyOf(res.companyId)
            best == Largest({ScoreSingle(company, customers[i]) : i \in 1..Len(customers)})
        IN /\ res.matched <=> best >= 60
           /\ res.matched =>
                /\ res.matchScore = best
                /\ ScoreSingle(company, CustomerOf(res.customerId)) = best
                /\ ~res.linked
           /\ ~res.matched => res.customerId = NULL
  /\ BulkDone =>
       \A r \in Rows : r.status # "linked" => (r.status = "suggested" <=> r.score >= 70)

\* a match found at score 70, with another customer scoring lower
C9_Witness ==
  /\ res.op = "match" /\ res.status = 200 /\ res.matched /\ ~res.linked
  /\ CompanyOf(res.companyId).invoice_customer_id = NULL
  /\ res.matchScore = 70
  /\ \E i \in 1..Len(customers) :
       ScoreSingle(CompanyOf(res.companyId), customers[i]) < 70

(***************************************************************************)
(* Properties of the enrichment of one company (SpecLink)                   *)
(***************************************************************************)
LinkDone == res.op = "link" /\ res.status = 200

\* the fields the auto-fill may set
ContactFields == {"phone", "email", "contact_name", "address", "city", "state", "zip"}

\* the entries of a summary
Entries(summary) == {summary[k] : k \in 1..Len(summary)}

\* C11: a link never overwrites a non-empty company field: each of phone,
\* email, contact_name, address, city, state and zip that is non-empty before
\* the request has the same value after it, whatever the customer record.
C11_NeverOverwrites ==
  [][Link => \A i \in 1..Len(companies), field \in ContactFields :
               Truthy(companies[i][field]) => companies'[i][field] = companies[i][field]]_vars

\* a company with every contact field set, linked to the customer x1 whose
\* contact fields are all set and all differ from the company's
C11_Witness ==
  /\ firestore /\ LinkDone
  /\ \E c \in StoredCompanies :
       /\ c.invoice_customer_id = "x1"
       /\ \A field \in ContactFields : Truthy(c[field])
       /\ Truthy(CustomerOf("x1").phone) /\ c.phone # CustomerOf("x1").phone
       /\ c.email # FirstEmail(CustomerOf("x1").emailContacts)
       /\ \A field \in {"city", "state", "zip"} :
            /\ Truthy(CustomerOf("x1").address[field])
            /\ c[field] # CustomerOf("x1").address[field]

\* C12: link is idempotent: a second link of a company to the customer it is
\* already linked to, the customer, estimates and invoices unchanged, leaves
\* every company field as the first link left it and returns an empty
\* summary.
C12_Idempotent ==
  [][\A companyId \in CompanyIds, x \in CustomerIds :
       (/\ RowsOf(companyId) # {}
        /\ CompanyOf(companyId).invoice_customer_id = x
        /\ LinkRequest(companyId, x, FALSE))
       => (companies' = companies /\ res'.autoUpdated = <<>>)]_vars

\* C13: the summary of a link lists exactly the fields the request changed:
\* it has the entry of a field iff the stored value after the request differs
\* from the value before it (the address entry standing for street, city,
\* state and zip).
C13_SummaryExact ==
  [][\A companyId \in CompanyIds, x \in CustomerIds \cup {GhostId} :
       (RowsOf(companyId) # {} /\ LinkRequest(companyId, x, FALSE)) =>
         LET row == CHOOSE i \in RowsOf(companyId) : TRUE
             Changed(field) == companies'[row][field] # companies[row][field]
             Listed(entry) == entry \in Entries(res'.autoUpdated)
         IN /\ Listed("type") <=> Changed("type")
            /\ Listed("last order date synced") <=> Changed("last_order_date")
            /\ Listed("last estimate date synced") <=> Changed("last_estimate_date")
            /\ Listed("phone added") <=> Changed("phone")
            /\ Listed("email added") <=> Changed("email")
            /\ Listed("contact name added") <=> Changed("contact_name")
            /\ Listed("address added") <=>
                 \E field \in {"address", "city", "state", "zip"} : Changed(field)]_vars

\* C14: city, state and zip are each filled on their own: when the company's
\* field is empty and the customer's address has it, the link fills it from
\* the customer, whether or not the company's street address is set.
C14_SubFieldsIndependent ==
  [][\A companyId \in CompanyIds, x \in CustomerIds :
       (/\ firestore /\ RowsOf(companyId) # {} /\ DocsOf(x) # {}
        /\ LinkRequest(companyId, x, FALSE)) =>
         LET row == CHOOSE i \in RowsOf(companyId) : TRUE
             addr == CustomerOf(x).address
         IN \A field \in {"city", "state", "zip"} :
              (~Truthy(companies[row][field]) /\ addr.present /\ Truthy(addr[field]))
              => companies'[row][field] = addr[field]]_vars

\* C15: the type transition of linking is one-way: a link that succeeds sets
\* the type to "Customer" iff the invoice app has at least one invoice of the
\* customer and the type is not "Customer" already, and otherwise leaves it;
\* no link and no unlink changes the type of a company that is a "Customer".
C15_TypeOneWay ==
  [][/\ \A companyId \in CompanyIds, x \in CustomerIds \cup {GhostId}, ioFails \in BOOLEAN :
          (/\ RowsOf(companyId) # {}
           /\ LinkRequest(companyId, x, ioFails)
           /\ res'.status = 200) =>
            LET row == CHOOSE i \in RowsOf(companyId) : TRUE
                hasInvoice == firestore /\ \E k \in 1..Len(invoices) : invoices[k].customerId = x
            IN companies'[row].type =
                 IF hasInvoice /\ companies[row].type # "Customer" THEN "Customer"
                 ELSE companies[row].type
     /\ (Link \/ Unlink) =>
          \A i \in 1..Len(companies) :
            companies[i].type = "Customer" => companies'[i].type = "Customer"]_vars

\* a "Customer" that carries the order date of an earlier link and is now
\* linked to x3, a customer without invoices
C15_Witness ==
  /\ firestore /\ LinkDone
  /\ \A k \in 1..Len(invoices) : invoices[k].customerId # "x3"
  /\ \E c \in StoredCompanies :
       c.type = "Customer" /\ c.invoice_customer_id = "x3" /\ Truthy(c.last_order_date)

\* the fields of a company other than its link
BusinessFields ==
  {"phone", "email", "contact_name", "address", "city", "state", "zip", "type",
   "last_order_date", "last_estimate_date"}

\* C16: an unlink clears invoice_customer_id of its company and nothing
\* else: every other field of that company, also those an earlier link
\* copied, and every other company are as before.
C16_UnlinkClearsIdOnly ==
  [][\A companyId \in CompanyIds, ioFails \in BOOLEAN :
       UnlinkRequest(companyId, ioFails) =>
         /\ Len(companies') = Len(companies)
         /\ \A i \in 1..Len(companies) :
              /\ \A field \in BusinessFields \cup {"id", "name"} :
                   companies'[i][field] = companies[i][field]
              /\ companies[i].id # companyId =>
                   companies'[i].invoice_customer_id = companies[i].invoice_customer_id
              /\ (companies[i].id = companyId /\ res'.status = 200) =>
                   companies'[i].invoice_customer_id = NULL]_vars

\* after an unlink: a company without link that keeps the type and the order
\* date a link gave it, and another company that is still linked
C16_Witness ==
  /\ res.op = "unlink" /\ res.status = 200
  /\ \E c, d \in StoredCompanies :
       /\ c.invoice_customer_id = NULL /\ c.type = "Customer" /\ Truthy(c.last_order_date)
       /\ d.id # c.id /\ d.invoice_customer_id # NULL

\* C17: without the invoice app (firestore not configured) a match, a bulk
\* match and a link of a stored company to a customer id each answer 503
\* "integration not configured" and write nothing.
C17_FailFast ==
  [][(/\ ~firestore
      /\ \/ Match
         \/ BulkMatch
         \/ \E companyId \in CompanyIds, x \in CustomerIds, ioFails \in BOOLEAN :
              RowsOf(companyId) # {} /\ LinkRequest(companyId, x, ioFails))
     => (res'.status = 503 /\ companies' = companies)]_vars

\* C18: a link whose read of the customer, the estimates or the invoices
\* fails still succeeds: the company is linked to the requested id and the
\* answer is a success.
C18_FetchFailureStillLinks ==
  [][\A companyId \in CompanyIds, x \in CustomerIds :
       (firestore /\ RowsOf(companyId) # {} /\ LinkRequest(companyId, x, TRUE)) =>
         LET row == CHOOSE i \in RowsOf(companyId) : TRUE
         IN res'.status = 200 /\ companies'[row].invoice_customer_id = x]_vars

\* C19: a link whose companyId names no company, or whose invoiceCustomerId
\* names no customer of the invoice app, answers an error and changes no
\* field of any company.
C19_NotFoundNoEffect ==
  [][\A companyId \in CompanyIds, x \in CustomerIds \cup {GhostId}, ioFails \in BOOLEAN :
       (/\ firestore
        /\ RowsOf(companyId) = {} \/ DocsOf(x) = {}
        /\ LinkRequest(companyId, x, ioFails))
       => (res'.status >= 400 /\ companies' = companies)]_vars

(***************************************************************************)
(* Properties of the activity report (SpecReport)                           *)
(***************************************************************************)
ReportDone == res.op = "activity-report" /\ res.status = 200

\* the Sunday on or before a calendar date
SundayOnOrBefore(date) ==
  LET n == MakeDay(date.month, date.day)
      sunday == CHOOSE s \in (n - 6)..n : WeekDay(s) = 0
  IN DateFromDay(sunday)

\* the sum of a counter over a set of buckets
RECURSIVE SumOf(_, _)
SumOf(buckets, counter) ==
  IF buckets = {} THEN 0
  ELSE LET b == CHOOSE x \in buckets : TRUE
       IN b[counter] + SumOf(buckets \ {b}, counter)

\* C20: the report counts each activity in the week bucket keyed by the
\* Sunday on or before its business date, in every server time zone: the week
\* keys are the Sundays of the days of the report, and the counters of a week
\* are the sums of the counters of its days.
C20_WeekStartsSunday ==
  ReportDone =>
    /\ {b.key : b \in res.report.byWeek}
         = {SundayOnOrBefore(b.key) : b \in res.report.byDate}
    /\ \A week \in res.report.byWeek :
         \A counter \in {"calls", "emails", "answered", "interested"} :
           week[counter] =
             SumOf({b \in res.report.byDate : SundayOnOrBefore(b.key) = week.key}, counter)


(***************************************************************************)
(* GET /reports/employees                                                  *)
(***************************************************************************)
\* Math.round((n / d) * 100) for counts n >= 0 and d > 0: the nearest
\* integer, a half rounding up
Round(n, d) == (200 * n + d) \div (2 * d)

\* (activities || []).filter(a => a.employee_id === emp.id) over the rows
\* of the query
EmpActivities(emp, rows) == {i \in rows : activities[i].employee_id = emp.id}

\* empActivities.filter(a => a.answered).length, with the variant that
\* counts the answered calls alone
Answered_CallsOnly(empActivities) ==
  Cardinality({i \in empActivities :
                 activities[i].type = "call" /\ activities[i].answered # 0})

Answered(empActivities) ==
  Cardinality({i \in empActivities : activities[i].answered # 0})

\* the statistics of one employee
EmployeeStat(emp, rows) ==
  LET empActivities == EmpActivities(emp, rows)
      calls == Cardinality({i \in empActivities : activities[i].type = "call"})
      emails == Cardinality({i \in empActivities : activities[i].type = "email"})
      answered == Answered(empActivities)
      interested == Cardinality({i \in empActivities : activities[i].interested # 0})
      followUps == Cardinality({i \in empActivities : activities[i].follow_up # 0})
  IN [id |-> emp.id, name |-> emp.name, active |-> emp.active,
      calls |-> calls, emails |-> emails,
      totalActivities |-> Cardinality(empActivities),
      answered |-> answered, interested |-> interested, followUps |-> followUps,
      answerRate |-> IF calls > 0 THEN Round(answered, calls) ELSE 0,
      interestRate |-> IF answered > 0 THEN Round(interested, answered) ELSE 0]

\* employeeStats.sort((a, b) => b.totalActivities - a.totalActivities): the
\* sort is stable, an element goes behind the elements that are not smaller
RECURSIVE InsertStat(_, _)
InsertStat(stat, sorted) ==
  IF sorted = <<>> THEN <<stat>>
  ELSE IF Head(sorted).totalActivities >= stat.totalActivities
       THEN <<Head(sorted)>> \o InsertStat(stat, Tail(sorted))
       ELSE <<stat>> \o sorted

RECURSIVE SortStats(_, _)
SortStats(stats, sorted) ==
  IF stats = <<>> THEN sorted
  ELSE SortStats(Tail(stats), InsertStat(Head(stats), sorted))

EmployeeStats(start_date, end_date) ==
  LET rows == Selected(start_date, end_date)
  IN SortStats([e \in 1..Len(employees) |-> EmployeeStat(employees[e], rows)], <<>>)

\* one request: the query { start_date, end_date }, and whether a query of
\* the store fails
EmployeeReport ==
  \E start_date \in ReportRangeStarts, ioFails \in BOOLEAN :
    /\ res' = IF ioFails THEN Response("employee-report", 500)
              ELSE [Response("employee-report", 200) EXCEPT
                      !.report = EmployeeStats(start_date, NoDate)]
    /\ UNCHANGED <<firestore, companies, customers, estimates, invoices, activities,
                   timezoneOffset, employees, users, pending, storeCascades>>

\* a row of the employees table
Employee(id, name, active) == [id |-> id, name |-> name, role |-> <<>>, active |-> active]

\* the longest activities table of the employee report
MaxEmployeeActivities == 3

\* the activities of the employee report: every kind of activity of the first
\* employee and an answered call of the second, on one day before the start
\* of the range
EmployeeActivities ==
  {Activity("c1", "e1", type, answered, interested, 0,
            [year |-> 2024, month |-> 2, day |-> 29, hasTime |-> FALSE, hour |-> 0]) :
     type \in {"call", "email"}, answered \in {0, 1}, interested \in {0, 1}}
  \cup {Activity("c1", "e2", "call", 1, 0, 1,
                 [year |-> 2024, month |-> 2, day |-> 29, hasTime |-> FALSE, hour |-> 0])}

InitEmployeeReport ==
  /\ firestore = FALSE
  /\ companies = <<>>
  /\ customers = {}
  /\ estimates = {}
  /\ invoices = {}
  /\ res = NoResponse
  /\ activities \in UNION {[1..n -> EmployeeActivities] : n \in 0..MaxEmployeeActivities}
  /\ timezoneOffset = 0
  /\ employees = <<Employee("e1", "A", 1), Employee("e2", "B", 1)>>
  /\ users = <<>>
  /\ pending = <<>>
  /\ storeCascades = TRUE

NextEmployeeReport == EmployeeReport

SpecEmployeeReport == InitEmployeeReport /\ [][NextEmployeeReport]_vars

(***************************************************************************)
(* Properties of the employee report (SpecEmployeeReport)                   *)
(***************************************************************************)
EmployeeReportDone == res.op = "employee-report" /\ res.status = 200

\* the activities of an employee in the range of a request
Counted(id, start_date) ==
  {i \in Selected(start_date, NoDate) : activities[i].employee_id = id}

CallsOf(rows) == Cardinality({i \in rows : activities[i].type = "call"})
AnsweredOf(rows) == Cardinality({i \in rows : activities[i].answered = 1})
InterestedOf(rows) == Cardinality({i \in rows : activities[i].interested = 1})

\* the nearest integer to 100 * n / d, a half rounding up: the r with
\* 2 * d * r <= 200 * n + d < 2 * d * (r + 1)
Nearest(n, d) ==
  CHOOSE r \in 0..(100 * n + 1) : 2 * d * r <= 200 * n + d /\ 200 * n + d < 2 * d * (r + 1)

\* C21: in the employee report, answerRate is round(answered / calls * 100)
\* when the employee has calls and 0 otherwise, answered counting the
\* answered activities of every type and calls the activities of type call;
\* interestRate is round(interested / answered * 100) when answered > 0 and 0
\* otherwise (the counts being those of the range of some request).
C21_Rates ==
  EmployeeReportDone =>
    \E start_date \in ReportRangeStarts :
      \A e \in 1..Len(res.report) :
        LET stat == res.report[e]
            rows == Counted(stat.id, start_date)
            calls == CallsOf(rows)
            answered == AnsweredOf(rows)
            interested == InterestedOf(rows)
        IN /\ stat.totalActivities = Cardinality(rows)
           /\ stat.answerRate = IF calls > 0 THEN Nearest(answered, calls) ELSE 0
           /\ stat.interestRate = IF answered > 0 THEN Nearest(interested, answered) ELSE 0

\* an employee with no call and three answered emails has answerRate 0, and
\* another report has a rate that is rounded up (2 of 3 is 67)
C21_Witness ==
  /\ EmployeeReportDone
  /\ \E e \in 1..Len(res.report) :
       /\ res.report[e].calls = 0 /\ res.report[e].answered = 3
       /\ res.report[e].answerRate = 0

C21_WitnessRounded ==
  /\ EmployeeReportDone
  /\ \E e \in 1..Len(res.report) :
       /\ res.report[e].calls = 3 /\ res.report[e].answered = 2
       /\ res.report[e].answerRate = 67

DistinctCompanies_Rows(rows) == Cardinality(rows)

DistinctCompanies(rows) == Cardinality({activities[i].company_id : i \in rows})

Funnel(start_date, end_date) ==
  LET rows == Selected(start_date, end_date)
  IN [totalCompanies |-> Len(companies),
      contacted |-> DistinctCompanies(rows),
      answered |-> DistinctCompanies({i \in rows : activities[i].answered # 0}),
      interested |-> DistinctCompanies({i \in rows : activities[i].interested # 0}),
      customers |-> Cardinality({companies[c].id : c \in {k \in 1..Len(companies) :
                                                           companies[k].is_customer # 0}})]

\* one request: the query { start_date, end_date }, and whether a query of
\* the store fails
FunnelReport ==
  \E start_date \in ReportRangeStarts, end_date \in ReportRangeEnds, ioFails \in BOOLEAN :
    /\ res' = IF ioFails THEN Response("funnel", 500)
              ELSE [Response("funnel", 200) EXCEPT !.report = Funnel(start_date, end_date)]
    /\ UNCHANGED <<firestore, companies, customers, estimates, invoices, activities,
                   timezoneOffset, employees, users, pending, storeCascades>>

(***************************************************************************)
(* GET /reports/pipeline                                                   *)
(***************************************************************************)
\* byType: the counters of each c.type || 'Unknown'
TypeOf(c) == IF c.type = NULL THEN "Unknown" ELSE c.type

ByType ==
  {LET of == {c \in 1..Len(companies) : TypeOf(companies[c]) = type}
   IN [type |-> type, total |-> Cardinality(of),
       customers |-> Cardinality({c \in of : companies[c].is_customer # 0}),
       prospects |-> Cardinality({c \in of : companies[c].is_customer = 0})] :
     type \in {TypeOf(companies[c]) : c \in 1..Len(companies)}}

\* companyStatuses[id], undefined for a company without activity
NoStatus == [contacted |-> FALSE, interested |-> FALSE, followUp |-> FALSE]

CompanyStatus(id) ==
  LET of == {i \in 1..Len(activities) : activities[i].company_id = id}
  IN [contacted |-> of # {},
      interested |-> \E i \in of : activities[i].interested # 0,
      followUp |-> \E i \in of : activities[i].follow_up # 0]

\* the byStatus counter that a company increments, with the variant that
\* looks at the interested activities first
StatusBucket_InterestedFirst(c) ==
  LET status == CompanyStatus(c.id)
  IN IF status.interested THEN "interested"
     ELSE IF c.is_customer # 0 THEN "customers"
     ELSE IF status = NoStatus THEN "notContacted"
     ELSE IF status.followUp THEN "needsFollowUp"
     ELSE "contacted"

StatusBucket(c) ==
  LET status == CompanyStatus(c.id)
  IN IF c.is_customer # 0 THEN "customers"
     ELSE IF status = NoStatus THEN "notContacted"
     ELSE IF status.interested THEN "interested"
     ELSE IF status.followUp THEN "needsFollowUp"
     ELSE "contacted"

StatusBuckets == {"notContacted", "contacted", "interested", "needsFollowUp", "customers"}

ByStatus ==
  [b \in StatusBuckets |->
     Cardinality({c \in 1..Len(companies) : StatusBucket(companies[c]) = b})]

\* the rows of the model hold no tags: byTag is empty
Pipeline == [byType |-> ByType, byTag |-> {}, byStatus |-> ByStatus]

\* one request, and whether a query of the store fails
PipelineReport ==
  \E ioFails \in BOOLEAN :
    /\ res' = IF ioFails THEN Response("pipeline", 500)
              ELSE [Response("pipeline", 200) EXCEPT !.report = Pipeline]
    /\ UNCHANGED <<firestore, companies, customers, estimates, invoices, activities,
                   timezoneOffset, employees, users, pending, storeCascades>>

\* the companies of the two reports: the first a prospect by type, marked as
\* a customer or not; the second a customer by type (the type a link sets)
\* that is not marked as a customer
PipelineCompany(id, type, is_customer) ==
  NewCompany(id, [name |-> <<"n">>, type |-> type, contact_name |-> <<>>,
                  address |-> <<>>, city |-> <<>>, state |-> <<>>, zip |-> <<>>,
                  phone |-> <<>>, email |-> <<>>, notes |-> NoNotes,
                  is_customer |-> is_customer])

\* the activities of the two reports: every kind of activity of the first
\* company on the Sunday, an answered one and an interested one on the
\* Wednesday, and four kinds of activity of the second company
PipelineDay(day) == [year |-> 2024, month |-> 3, day |-> day, hasTime |-> FALSE, hour |-> 0]

PipelineActivities ==
  {Activity("c1", "e1", "call", answered, interested, follow_up, PipelineDay(3)) :
     answered \in {0, 1}, interested \in {0, 1}, follow_up \in {0, 1}}
  \cup {Activity("c1", "e1", "call", 1, 0, 0, PipelineDay(6)),
        Activity("c1", "e1", "call", 0, 1, 0, PipelineDay(6))}
  \cup {Activity("c2", "e1", "email", kind[1], kind[2], kind[3], PipelineDay(3)) :
          kind \in {<<0, 0, 0>>, <<1, 0, 0>>, <<0, 1, 0>>, <<0, 0, 1>>}}

InitPipeline ==
  /\ firestore = FALSE
  /\ \E is_customer \in BOOLEAN :
       companies = <<PipelineCompany("c1", "Prospect", is_customer),
                     PipelineCompany("c2", "Customer", FALSE)>>
  /\ customers = {}
  /\ estimates = {}
  /\ invoices = {}
  /\ res = NoResponse
  /\ activities \in UNION {[1..n -> PipelineActivities] : n \in 0..MaxActivities}
  /\ timezoneOffset = 0
  /\ NoAccounts

NextPipeline == FunnelReport \/ PipelineReport

SpecPipeline == InitPipeline /\ [][NextPipeline]_vars

(***************************************************************************)
(* Properties of the funnel and pipeline reports (SpecPipeline)             *)
(***************************************************************************)
PipelineDone == res.op = "pipeline" /\ res.status = 200
FunnelDone == res.op = "funnel" /\ res.status = 200

HasActivity(id) == \E i \in 1..Len(activities) : activities[i].company_id = id
HasInterested(id) ==
  \E i \in 1..Len(activities) :
    activities[i].company_id = id /\ activities[i].interested = 1
HasFollowUp(id) ==
  \E i \in 1..Len(activities) :
    activities[i].company_id = id /\ activities[i].follow_up = 1

\* the companies of each bucket, by the precedence of the classification
CustomersClass == {c \in 1..Len(companies) : companies[c].is_customer = 1}
InterestedClass ==
  {c \in 1..Len(companies) : HasInterested(companies[c].id)} \ CustomersClass
FollowUpClass ==
  {c \in 1..Len(companies) : HasFollowUp(companies[c].id)}
    \ (CustomersClass \cup InterestedClass)
ContactedClass ==
  {c \in 1..Len(companies) : HasActivity(companies[c].id)}
    \ (CustomersClass \cup InterestedClass \cup FollowUpClass)
NotContactedClass ==
  (1..Len(companies))
    \ (CustomersClass \cup InterestedClass \cup FollowUpClass \cup ContactedClass)

\* C22: the pipeline report counts every company in exactly one byStatus
\* bucket, chosen by the precedence is_customer, interested activity,
\* follow_up activity, any activity, none; the counters add up to the number
\* of companies.
C22_StatusPrecedence ==
  PipelineDone =>
    /\ res.report.byStatus["customers"] = Cardinality(CustomersClass)
    /\ res.report.byStatus["interested"] = Cardinality(InterestedClass)
    /\ res.report.byStatus["needsFollowUp"] = Cardinality(FollowUpClass)
    /\ res.report.byStatus["contacted"] = Cardinality(ContactedClass)
    /\ res.report.byStatus["notContacted"] = Cardinality(NotContactedClass)
    /\ res.report.byStatus["customers"] + res.report.byStatus["interested"]
         + res.report.byStatus["needsFollowUp"] + res.report.byStatus["contacted"]
         + res.report.byStatus["notContacted"] = Len(companies)

\* a customer with an interested activity is counted under customers and not
\* under interested
C22_Witness ==
  /\ PipelineDone
  /\ companies[1].is_customer = 1 /\ HasInterested(companies[1].id)
  /\ ~HasInterested(companies[2].id)
  /\ res.report.byStatus["customers"] = 1
  /\ res.report.byStatus["interested"] = 0

\* the distinct company ids of the activities of a range that satisfy a flag
FunnelIds(start_date, end_date, flag) ==
  {id \in {activities[i].company_id : i \in 1..Len(activities)} :
     \E i \in Selected(start_date, end_date) :
       activities[i].company_id = id /\ (flag # "any" => activities[i][flag] = 1)}

\* C23: the funnel report returns the numbers of distinct company ids of the
\* activities of the range (contacted), of the answered ones and of the
\* interested ones; customers is the number of companies with is_customer,
\* whatever the range; answered <= contacted and interested <= contacted.
C23_Funnel ==
  FunnelDone =>
    /\ \E start_date \in ReportRangeStarts, end_date \in ReportRangeEnds :
         /\ res.report.contacted = Cardinality(FunnelIds(start_date, end_date, "any"))
         /\ res.report.answered = Cardinality(FunnelIds(start_date, end_date, "answered"))
         /\ res.report.interested = Cardinality(FunnelIds(start_date, end_date, "interested"))
    /\ res.report.customers = Cardinality(CustomersClass)
    /\ res.report.answered <= res.report.contacted
    /\ res.report.interested <= res.report.contacted

\* two activities of one company, a customer, one answered and the other
\* interested: the company is counted once in each number, and once as a
\* customer
C23_Witness ==
  /\ FunnelDone
  /\ Len(activities) = 2
  /\ activities[1].company_id = activities[2].company_id
  /\ activities[1].date.day = 6 /\ activities[2].date.day = 6
  /\ res.report.contacted = 1 /\ res.report.answered = 1 /\ res.report.interested = 1
  /\ res.report.customers = 1


(***************************************************************************)
(* POST /companies/:id/notes and the note of POST /email/send              *)
(***************************************************************************)
\* a note; the clock is not modelled, id stands for `note_${Date.now()}` and
\* the timestamp is left out
Note(author, text) == [id |-> "note", author |-> author, text |-> text]

\* the entry that a plain text is migrated to
LegacyNote(raw) == [id |-> "legacy_1", author |-> "System", text |-> raw]

\* let notesArr = []; if (raw.trim().startsWith('[')) { try JSON.parse(raw)
\* catch [] } else if (raw.trim()) [legacy entry]: the JSON of a list starts
\* with '[' and parses to the list, any other text that starts with '[' does
\* not parse
ParseNotes(raw) ==
  IF raw.json THEN raw.list
  ELSE IF trim(raw.text) # <<>> /\ Head(trim(raw.text)) = "["
       THEN <<>>
       ELSE IF trim(raw.text) # <<>> THEN <<LegacyNote(raw.text)>> ELSE <<>>

\* notesArr.unshift(newNote), with the variant that pushes
Unshift_Push(notesArr, newNote) == Append(notesArr, newNote)

Unshift(notesArr, newNote) == <<newNote>> \o notesArr

\* the longest stored list of notes that takes one more
MaxNotes == 3

\* UPDATE companies SET notes = JSON.stringify(notesArr) WHERE id = companyId
UpdateNotes(companyId, notesArr) ==
  [i \in 1..Len(companies) |->
     IF companies[i].id = companyId
     THEN [companies[i] EXCEPT !.notes = JsonNotes(notesArr)]
     ELSE companies[i]]

\* the user of the request
UserNames == {"A", "Z"}

\* one request POST /companies/:id/notes of the user `author` with the body
\* { text }; ioFails: the select of the row or the update fails. The select
\* of a row that does not exist is an error of .single()
AddNoteRequest(companyId, text, author, ioFails) ==
  LET found == RowsOf(companyId) # {}
      row == CHOOSE i \in RowsOf(companyId) : TRUE
      newNote == Note(author, trim(text))
      notesArr == Unshift(ParseNotes(companies[row].notes), newNote)
      status == IF ~Truthy(text) \/ ~Truthy(trim(text)) THEN 400
                ELSE IF ioFails \/ ~found THEN 500
                ELSE 200
  IN /\ found /\ status = 200 => Len(ParseNotes(companies[row].notes)) < MaxNotes
     /\ companies' = IF status = 200 THEN UpdateNotes(companyId, notesArr) ELSE companies
     /\ res' = IF status = 200
               THEN [Response("add-note", 200) EXCEPT
                       !.companyId = companyId,
                       !.report = [note |-> newNote, notes |-> notesArr]]
               ELSE Response("add-note", status)
     /\ UNCHANGED <<firestore, customers, estimates, invoices, activities,
                    timezoneOffset, employees, users, pending, storeCascades>>

NoteTexts == {<<>>, <<" ">>, <<" ", "b">>}

AddNote ==
  \E companyId \in {"c1", GhostId}, text \in NoteTexts, ioFails \in BOOLEAN :
    AddNoteRequest(companyId, text, "A", ioFails)

\* `Sent email: "${subject}" to ${to}`, for the one subject and addressee of
\* the model
SentEmailText == <<"S", "e", "n", "t">>

\* the day of the request
Today == [year |-> 2024, month |-> 3, day |-> 3, hasTime |-> FALSE, hour |-> 0]

\* one request POST /email/send of the user `author`, for a company or for
\* none: status is 400 for a body that is not valid, 500 for a mail service
\* that is not configured or fails, 200 for a mail that is sent. No result of
\* the store is checked: the activity is inserted when the lookup finds an
\* active employee of the name of the user and neither the lookup nor the
\* insert fails (activityFails), the note is stored when neither the select of
\* the row nor the update fails (noteFails).
SendEmailRequest(company_id, author, status, activityFails, noteFails) ==
  LET logged == status = 200 /\ company_id # NULL
      matching == {e \in 1..Len(employees) :
                     employees[e].name = author /\ employees[e].active = 1}
      employeeId == IF activityFails \/ matching = {} THEN NULL
                    ELSE employees[CHOOSE e \in matching :
                                     \A f \in matching : e <= f].id
      found == RowsOf(company_id) # {} /\ ~noteFails
      row == CHOOSE i \in RowsOf(company_id) : TRUE
      notesArr == Unshift(ParseNotes(companies[row].notes), Note(author, SentEmailText))
  IN /\ logged /\ employeeId # NULL => Len(activities) < MaxActivities
     /\ logged /\ found => Len(ParseNotes(companies[row].notes)) < MaxNotes
     /\ activities' = IF logged /\ employeeId # NULL
                      THEN Append(activities,
                                  Activity(company_id, employeeId, "email", 0, 0, 0, Today))
                      ELSE activities
     /\ companies' = IF logged /\ found
                     THEN UpdateNotes(company_id, notesArr)
                     ELSE companies
     /\ res' = Response("send-email", status)
     /\ UNCHANGED <<firestore, customers, estimates, invoices, timezoneOffset,
                    employees, users, pending, storeCascades>>

SendEmail ==
  \E company_id \in {"c1", GhostId, NULL}, author \in UserNames,
     status \in {400, 500, 200}, activityFails \in BOOLEAN, noteFails \in BOOLEAN :
    SendEmailRequest(company_id, author, status, activityFails, noteFails)

\* the stored notes of a company before its first note is added: none, a
\* blank text, a plain text, a plain text in brackets, the JSON of the empty
\* list and the JSON of a list of one note
StoredNotes ==
  {NoNotes, TextNotes(<<" ">>), TextNotes(<<"o", " ">>), TextNotes(<<" ", "[", "o", "]">>),
   JsonNotes(<<>>), JsonNotes(<<Note("Z", <<"z">>)>>)}

NotesCompany(id, notes) ==
  NewCompany(id, [name |-> <<"n">>, type |-> "Prospect", contact_name |-> <<>>,
                  address |-> <<>>, city |-> <<>>, state |-> <<>>, zip |-> <<>>,
                  phone |-> <<>>, email |-> <<>>, notes |-> notes,
                  is_customer |-> FALSE])

InitNotes ==
  /\ firestore = FALSE
  /\ \E notes \in StoredNotes :
       companies = <<NotesCompany("c1", notes),
                     NotesCompany("c2", JsonNotes(<<Note("Z", <<"z">>)>>))>>
  /\ customers = {}
  /\ estimates = {}
  /\ invoices = {}
  /\ res = NoResponse
  /\ activities = <<>>
  /\ timezoneOffset = 0
  /\ employees = <<Employee("e1", "A", 1)>>
  /\ users = <<>>
  /\ pending = <<>>
  /\ storeCascades = TRUE

NextNotes == AddNote \/ SendEmail

SpecNotes == InitNotes /\ [][NextNotes]_vars

(***************************************************************************)
(* Properties of the notes (SpecNotes)                                     *)
(***************************************************************************)
\* the notes list of a company: the stored list, the one entry of a plain
\* text, and empty for no text and for a text that is malformed JSON
NotesList(c) ==
  IF c.notes.json THEN c.notes.list
  ELSE IF \A i \in 1..Len(c.notes.text) : c.notes.text[i] = " " THEN <<>>
  ELSE IF \E i \in 1..Len(c.notes.text) :
            /\ c.notes.text[i] = "["
            /\ \A j \in 1..(i - 1) : c.notes.text[j] = " "
       THEN <<>>
       ELSE <<[id |-> "legacy_1", author |-> "System", text |-> c.notes.text]>>

\* C24: every note that is added is placed at the head of the notes list of
\* its company, and the notes that the list held keep their content and their
\* order behind it; the lists of the other companies are left alone. This for
\* the add-note request and for the note of a sent email.
C24_NewestFirst ==
  [][\A i \in 1..Len(companies) :
       LET before == NotesList(companies[i])
           after == NotesList(companies'[i])
       IN /\ (\E text \in NoteTexts :
                /\ AddNoteRequest(companies[i].id, text, "A", FALSE)
                /\ res'.status = 200)
            => /\ Len(after) = Len(before) + 1
               /\ after[1].author = "A" /\ after[1].text = <<"b">>
               /\ \A k \in 1..Len(before) : after[k + 1] = before[k]
          /\ after # before
            => /\ Len(after) = Len(before) + 1
               /\ \A k \in 1..Len(before) : after[k + 1] = before[k]
               /\ \A j \in 1..Len(companies) :
                    j # i => companies'[j] = companies[j]]_vars

\* a plain text has had two notes added, the note of an email and then the
\* note of a request: the newest first, the text last
C24_Witness ==
  /\ res.op = "add-note" /\ res.status = 200
  /\ companies[1].notes.json
  /\ Len(companies[1].notes.list) = 3
  /\ companies[1].notes.list[1].text = <<"b">>
  /\ companies[1].notes.list[2].text = SentEmailText
  /\ companies[1].notes.list[3] = LegacyNote(<<"o", " ">>)


(***************************************************************************)
(* POST /companies/:id/notes, request by request: the handler awaits the   *)
(* select of the row and then the update, and another request runs in      *)
(* between                                                                 *)
(***************************************************************************)
\* the requests in flight and the user of each
NoteRequests == {1, 2}
UserOf(r) == IF r = 1 THEN "A" ELSE "Z"

\* a request that has not been received; pc is the position of the handler,
\* note and notes are its locals newNote and notesArr, and the body of its
\* response once it has one
NotStarted == [pc |-> "start", status |-> 0, note |-> Note(NULL, <<>>), notes |-> <<>>]

\* the handler of request r up to the await of the update: the validation,
\* the select of the row (ioFails: it fails), the parse and the unshift
NoteRead(r, text, ioFails) ==
  LET newNote == Note(UserOf(r), trim(text))
      status == IF ~Truthy(text) \/ ~Truthy(trim(text)) THEN 400
                ELSE IF ioFails THEN 500 ELSE 200
  IN /\ pending[r].pc = "start"
     /\ pending' = [pending EXCEPT ![r] =
                      IF status = 200
                      THEN [pc |-> "read", status |-> 0, note |-> newNote,
                            notes |-> Unshift(ParseNotes(companies[1].notes), newNote)]
                      ELSE [NotStarted EXCEPT !.pc = "done", !.status = status]]
     /\ res' = IF status = 200 THEN res ELSE Response("add-note", status)
     /\ UNCHANGED <<firestore, companies, customers, estimates, invoices, activities,
                    timezoneOffset, employees, users, storeCascades>>

\* the handler of request r from the update on (ioFails: the update fails)
NoteWrite(r, ioFails) ==
  LET status == IF ioFails THEN 500 ELSE 200
  IN /\ pending[r].pc = "read"
     /\ companies' = IF status = 200
                     THEN UpdateNotes(companies[1].id, pending[r].notes)
                     ELSE companies
     /\ pending' = [pending EXCEPT ![r].pc = "done", ![r].status = status]
     /\ res' = IF status = 200
               THEN [Response("add-note", 200) EXCEPT
                       !.companyId = companies[1].id,
                       !.report = [note |-> pending[r].note, notes |-> pending[r].notes]]
               ELSE Response("add-note", 500)
     /\ UNCHANGED <<firestore, customers, estimates, invoices, activities,
                    timezoneOffset, employees, users, storeCascades>>

ReadNotes ==
  \E r \in NoteRequests, text \in NoteTexts, ioFails \in BOOLEAN : NoteRead(r, text, ioFails)

WriteNotes == \E r \in NoteRequests, ioFails \in BOOLEAN : NoteWrite(r, ioFails)

InitNotesRace ==
  /\ firestore = FALSE
  /\ \E notes \in StoredNotes : companies = <<NotesCompany("c1", notes)>>
  /\ customers = {}
  /\ estimates = {}
  /\ invoices = {}
  /\ res = NoResponse
  /\ activities = <<>>
  /\ timezoneOffset = 0
  /\ employees = <<>>
  /\ users = <<>>
  /\ pending = [r \in NoteRequests |-> NotStarted]
  /\ storeCascades = TRUE

NextNotesRace == ReadNotes \/ WriteNotes

SpecNotesRace == InitNotesRace /\ [][NextNotesRace]_vars

(***************************************************************************)
(* Properties of interleaved note requests (SpecNotesRace)                 *)
(***************************************************************************)
\* the stored list holds the entry
Stored(entry) ==
  \E k \in 1..Len(NotesList(companies[1])) : NotesList(companies[1])[k] = entry

\* C28: interleaved add-note requests lose no note: once the requests have
\* been answered, the stored list holds the note of every request that
\* succeeded and every note that such a request found in the list.
C28_NoLostNote ==
  (\A r \in NoteRequests : pending[r].pc = "done") =>
    \A r \in NoteRequests :
      pending[r].status = 200 =>
        \A k \in 1..Len(pending[r].notes) : Stored(pending[r].notes[k])

\* both requests have succeeded and the note of one is not stored
C28_Lost ==
  /\ \A r \in NoteRequests : pending[r].pc = "done" /\ pending[r].status = 200
  /\ \E r \in NoteRequests : ~Stored(pending[r].note)


(***************************************************************************)
(* Properties of the links of all companies (Spec)                         *)
(***************************************************************************)
\* the companies linked to a customer
LinkedTo(customerId) ==
  {i \in 1..Len(companies) : companies[i].invoice_customer_id = customerId}

\* C27: after any sequence of link and unlink requests, at most one company
\* is linked to a given customer of the invoicing store.
C27_OneCompanyPerCustomer ==
  \A customerId \in CustomerIds : Cardinality(LinkedTo(customerId)) <= 1

\* a link request has linked a second company to a customer
C27_LinkedTwice ==
  /\ res.op = "link" /\ res.status = 200
  /\ \E customerId \in CustomerIds : Cardinality(LinkedTo(customerId)) = 2


(***************************************************************************)
(* DELETE /companies/:id and POST /companies/bulk/delete                   *)
(***************************************************************************)
\* DELETE FROM companies WHERE id IN ids: the rows that stay, and the
\* activities that stay, those of the deleted companies going with them when
\* the foreign key of the store cascades
KeepCompanies(ids) == SelectSeq(companies, LAMBDA c : c.id \notin ids)

KeepActivities(ids) == SelectSeq(activities, LAMBDA a : a.company_id \notin ids)

CascadeActivities(ids) == IF storeCascades THEN KeepActivities(ids) ELSE activities

\* one request DELETE /companies/:id of a user of the role: the select of the
\* row finds nothing when it fails, the delete may fail. The audit log is not
\* modelled.
DeleteCompanyRequest(id, role, selectFails, deleteFails) ==
  LET status == IF role # "admin" THEN 403
                ELSE IF selectFails \/ RowsOf(id) = {} THEN 404
                ELSE IF deleteFails THEN 500
                ELSE 200
  IN /\ companies' = IF status = 200 THEN KeepCompanies({id}) ELSE companies
     /\ activities' = IF status = 200 THEN CascadeActivities({id}) ELSE activities
     /\ res' = [Response("delete-company", status) EXCEPT !.companyId = id]
     /\ UNCHANGED <<firestore, customers, estimates, invoices, timezoneOffset,
                    employees, users, pending, storeCascades>>

Roles == {"admin", "user"}

DeleteCompany ==
  \E id \in CompanyIds \cup {GhostId}, role \in Roles,
     selectFails \in BOOLEAN, deleteFails \in BOOLEAN :
    DeleteCompanyRequest(id, role, selectFails, deleteFails)

\* one request POST /companies/bulk/delete { companyIds }: the delete of the
\* activities may fail and its result is not looked at, the delete of the
\* companies may fail
BulkDeleteRequest(companyIds, role, activitiesFail, companiesFail) ==
  LET status == IF role # "admin" THEN 403
                ELSE IF companyIds = {} THEN 400
                ELSE IF companiesFail THEN 500
                ELSE 200
      issued == status \in {200, 500}
      activitiesLeft == IF issued /\ ~activitiesFail
                        THEN KeepActivities(companyIds) ELSE activities
  IN /\ companies' = IF status = 200 THEN KeepCompanies(companyIds) ELSE companies
     /\ activities' = IF status = 200 /\ storeCascades
                      THEN KeepActivities(companyIds) ELSE activitiesLeft
     /\ res' = Response("bulk-delete", status)
     /\ UNCHANGED <<firestore, customers, estimates, invoices, timezoneOffset,
                    employees, users, pending, storeCascades>>

BulkDelete ==
  \E companyIds \in SUBSET (CompanyIds \cup {GhostId}), role \in Roles,
     activitiesFail \in BOOLEAN, companiesFail \in BOOLEAN :
    BulkDeleteRequest(companyIds, role, activitiesFail, companiesFail)

\* the activities of the companies before a delete
DeleteActivities ==
  {Activity(company_id, "e1", type, 0, 0, 0, Today) :
     company_id \in {"c1", "c2"}, type \in {"call", "email"}}

\* two companies, their activities, and a store whose foreign key cascades or
\* one without
InitDelete ==
  /\ firestore = FALSE
  /\ companies = <<NotesCompany("c1", NoNotes), NotesCompany("c2", NoNotes)>>
  /\ customers = {}
  /\ estimates = {}
  /\ invoices = {}
  /\ res = NoResponse
  /\ activities \in UNION {[1..n -> DeleteActivities] : n \in 0..MaxActivities}
  /\ timezoneOffset = 0
  /\ employees = <<Employee("e1", "A", 1)>>
  /\ users = <<>>
  /\ pending = <<>>
  /\ storeCascades \in BOOLEAN

NextDelete == DeleteCompany \/ BulkDelete

SpecDelete == InitDelete /\ [][NextDelete]_vars

(***************************************************************************)
(* Properties of the deletes (SpecDelete)                                  *)
(***************************************************************************)
\* C26: deleting a company deletes its activities, whether the store
\* cascades or not: no activity refers to a company that a successful
\* DELETE /companies/:id or bulk delete has removed.
C26_NoOrphanActivities ==
  \A i \in 1..Len(activities) :
    \E c \in 1..Len(companies) : companies[c].id = activities[i].company_id

\* DELETE /companies/:id has answered 200 and an activity of the company is
\* still stored
C26_Orphan ==
  /\ res.op = "delete-company" /\ res.status = 200
  /\ RowsOf(res.companyId) = {}
  /\ \E i \in 1..Len(activities) : activities[i].company_id = res.companyId


(***************************************************************************)
(* POST /auth/login, POST /auth/register, POST /employees,                 *)
(* PUT /employees/:id, DELETE /employees/:id                               *)
(***************************************************************************)
\* a row of the users table; the hash of a password is the password
User(username, password, name, role) ==
  [username |-> username, password |-> password, name |-> name, role |-> role]

\* the rows of a table with a value in a column
UsersOf(table, username) == {u \in 1..Len(table) : table[u].username = username}
UsersNamed(table, name) == {u \in 1..Len(table) : table[u].name = name}
EmployeesOf(table, id) == {e \in 1..Len(table) : table[e].id = id}

\* the employee lookup of the login: .eq('name', name).eq('active', 1)
\* .single() gives a row when exactly one row matches, no row otherwise
EmployeeIdOf(table, name) ==
  LET matching == {e \in 1..Len(table) : table[e].name = name /\ table[e].active = 1}
  IN IF Cardinality(matching) = 1 THEN table[CHOOSE e \in matching : TRUE].id ELSE NULL

\* the employeeId of the token of a login of the username, in the state of
\* the two tables
ResolveLogin(usersTable, employeesTable, username) ==
  IF UsersOf(usersTable, username) = {} THEN NULL
  ELSE EmployeeIdOf(employeesTable,
                    usersTable[CHOOSE u \in UsersOf(usersTable, username) : TRUE].name)

\* the values of the bodies: a username of three characters or more and one
\* that is shorter, a password of six characters or more
Usernames == {"ann", "bob"}
ShortUsername == "an"
Passwords == {"secret"}
EmployeeIds == {"e1", "e2"}
EmployeeNames == {"A", "B"}

\* one request POST /auth/login { username, password }
LoginRequest(username, password, ioFails) ==
  LET found == UsersOf(users, username) # {} /\ ~ioFails
      user == users[CHOOSE u \in UsersOf(users, username) : TRUE]
      status == IF username = NULL \/ password = NULL THEN 400
                ELSE IF ~found THEN 401
                ELSE IF user.password # password THEN 401
                ELSE 200
  IN /\ res' = IF status = 200
               THEN [Response("login", 200) EXCEPT
                       !.report = [username |-> username,
                                   employeeId |-> EmployeeIdOf(employees, user.name)]]
               ELSE Response("login", status)
     /\ UNCHANGED <<firestore, companies, customers, estimates, invoices, activities,
                    timezoneOffset, employees, users, pending, storeCascades>>

Login ==
  \E username \in Usernames \cup {NULL}, password \in Passwords \cup {"wrong", NULL},
     ioFails \in BOOLEAN :
    LoginRequest(username, password, ioFails)

\* one request POST /auth/register { username, password, name, role }: the
\* insert fails on a username that is stored (the column is UNIQUE) and when
\* the store fails
RegisterRequest(username, password, name, role, ioFails) ==
  LET status == IF username \notin Usernames \/ password \notin Passwords \/ name = NULL
                THEN 400
                ELSE IF ioFails \/ UsersOf(users, username) # {} THEN 400
                ELSE 201
  IN /\ users' = IF status = 201
                 THEN Append(users, User(username, password, name,
                                         IF role = NULL THEN "user" ELSE role))
                 ELSE users
     /\ res' = Response("register", status)
     /\ UNCHANGED <<firestore, companies, customers, estimates, invoices, activities,
                    timezoneOffset, employees, pending, storeCascades>>

Register ==
  \E username \in Usernames \cup {ShortUsername}, password \in Passwords,
     name \in EmployeeNames \cup {NULL}, role \in {NULL, "admin"}, ioFails \in BOOLEAN :
    RegisterRequest(username, password, name, role, ioFails)

\* the store calls of POST /employees that fail in a request: none, the
\* lookup of the username, the insert of the user, the insert of the
\* employee, or the insert of the employee and the delete that rolls the user
\* back
CreateFailures == {"none", "lookup", "user", "employee", "employee-rollback"}

\* one request POST /employees { id, name, active, username, password }. The
\* insert of the user fails on a stored username, the insert of the employee
\* on a stored id (the primary key).
CreateEmployeeRequest(id, name, active, username, password, fails) ==
  LET invalid == \/ name = NULL
                 \/ (username # NULL \/ password # NULL)
                      /\ (username \notin Usernames \/ password \notin Passwords)
      withLogin == username # NULL /\ password # NULL
      existingUser == fails # "lookup" /\ UsersOf(users, username) # {}
      userError == fails = "user" \/ UsersOf(users, username) # {}
      error == fails \in {"employee", "employee-rollback"} \/ EmployeesOf(employees, id) # {}
      status == IF invalid THEN 400
                ELSE IF withLogin /\ existingUser THEN 400
                ELSE IF withLogin /\ userError THEN 500
                ELSE IF error THEN 500
                ELSE 201
      inserted == withLogin /\ ~invalid /\ ~existingUser /\ ~userError
      createdUsers == Append(users, User(username, password, name, "user"))
      rolledBack == SelectSeq(createdUsers, LAMBDA u : u.username # username)
  IN /\ users' = IF ~inserted THEN users
                 ELSE IF status = 201 \/ fails = "employee-rollback" THEN createdUsers
                 ELSE rolledBack
     /\ employees' = IF status = 201
                     THEN Append(employees, Employee(id, name, IF active THEN 1 ELSE 0))
                     ELSE employees
     /\ res' = [Response("create-employee", status) EXCEPT !.report = [id |-> id]]
     /\ UNCHANGED <<firestore, companies, customers, estimates, invoices, activities,
                    timezoneOffset, pending, storeCascades>>

CreateEmployee ==
  \E id \in EmployeeIds, name \in EmployeeNames \cup {NULL}, active \in BOOLEAN,
     username \in Usernames \cup {ShortUsername, NULL}, password \in Passwords \cup {NULL},
     fails \in CreateFailures :
    CreateEmployeeRequest(id, name, active, username, password, fails)

\* one request PUT /employees/:id { name, active }: the update of the row of
\* the id, of no row when the id is not stored
UpdateEmployeeRequest(id, name, active, ioFails) ==
  /\ employees' = IF ioFails THEN employees
                  ELSE [e \in 1..Len(employees) |->
                          IF employees[e].id = id
                          THEN [employees[e] EXCEPT !.name = name,
                                                    !.active = IF active THEN 1 ELSE 0]
                          ELSE employees[e]]
  /\ res' = Response("update-employee", IF ioFails THEN 500 ELSE 200)
  /\ UNCHANGED <<firestore, companies, customers, estimates, invoices, activities,
                 timezoneOffset, users, pending, storeCascades>>

UpdateEmployee ==
  \E id \in EmployeeIds, name \in EmployeeNames, active \in BOOLEAN, ioFails \in BOOLEAN :
    UpdateEmployeeRequest(id, name, active, ioFails)

\* the store calls of DELETE /employees/:id that fail in a request: none, the
\* select of the row, the delete of the row, or the delete of the users
DeleteFailures == {"none", "select", "delete", "cleanup"}

\* one request DELETE /employees/:id of a user of the role: the row goes, and
\* then the users of the name of the employee whose role is user; the
\* activities of the employee go when the foreign key of the store cascades.
\* The audit log is not modelled.
DeleteEmployeeRequest(id, role, fails) ==
  LET found == fails # "select" /\ EmployeesOf(employees, id) # {}
      existing == employees[CHOOSE e \in EmployeesOf(employees, id) : TRUE]
      status == IF role # "admin" THEN 403
                ELSE IF ~found THEN 404
                ELSE IF fails = "delete" THEN 500
                ELSE 200
  IN /\ employees' = IF status = 200
                     THEN SelectSeq(employees, LAMBDA e : e.id # id)
                     ELSE employees
     /\ users' = IF status = 200 /\ fails # "cleanup"
                 THEN SelectSeq(users, LAMBDA u : ~(u.name = existing.name /\ u.role = "user"))
                 ELSE users
     /\ activities' = IF status = 200 /\ storeCascades
                      THEN SelectSeq(activities, LAMBDA a : a.employee_id # id)
                      ELSE activities
     /\ res' = Response("delete-employee", status)
     /\ UNCHANGED <<firestore, companies, customers, estimates, invoices,
                    timezoneOffset, pending, storeCascades>>

DeleteEmployee ==
  \E id \in EmployeeIds, role \in Roles, fails \in DeleteFailures :
    DeleteEmployeeRequest(id, role, fails)

InitEmployees ==
  /\ firestore = FALSE
  /\ companies = <<>>
  /\ customers = {}
  /\ estimates = {}
  /\ invoices = {}
  /\ res = NoResponse
  /\ activities = <<>>
  /\ timezoneOffset = 0
  /\ NoAccounts

NextEmployees == Login \/ Register \/ CreateEmployee \/ UpdateEmployee \/ DeleteEmployee

SpecEmployees == InitEmployees /\ [][NextEmployees]_vars

(***************************************************************************)
(* Properties of employees and their logins (SpecEmployees)                *)
(***************************************************************************)
\* C25: every employee that is created with a login has exactly one user of
\* its name, and the login of that user resolves to the id of the employee.
\* Stated for the state that the creation leaves: it holds as soon as the
\* request has answered 201.
C25_OneUserPerEmployee ==
  [][\A id \in EmployeeIds, name \in EmployeeNames, username \in Usernames,
        password \in Passwords :
       (/\ CreateEmployeeRequest(id, name, TRUE, username, password, "none")
        /\ res'.status = 201)
         => /\ Cardinality(UsersNamed(users', name)) = 1
            /\ ResolveLogin(users', employees', username) = id]_vars

\* an employee has been created with a login and two users have its name
C25_TwoUsers ==
  /\ res.op = "create-employee" /\ res.status = 201
  /\ \E e \in 1..Len(employees) :
       /\ employees[e].id = res.report.id
       /\ Cardinality(UsersNamed(users, employees[e].name)) = 2

\* C29: the creation of an employee with a login is all or nothing: a
\* request that answers an error leaves no new employee and no new user, a
\* request that answers 201 leaves the employee and the user of the username.
C29_AllOrNothing ==
  [][\A id \in EmployeeIds, name \in EmployeeNames \cup {NULL}, active \in BOOLEAN,
        username \in Usernames, password \in Passwords, fails \in CreateFailures :
       CreateEmployeeRequest(id, name, active, username, password, fails)
         => /\ res'.status # 201 => employees' = employees /\ users' = users
            /\ res'.status = 201 =>
                 /\ EmployeesOf(employees', id) # {} /\ EmployeesOf(employees, id) = {}
                 /\ UsersOf(users', username) # {} /\ UsersOf(users, username) = {}]_vars

\* the creation has answered 500 and the user of the request is stored
\* without an employee of its name
C29_UserLeft ==
  /\ res.op = "create-employee" /\ res.status = 500
  /\ \E u \in 1..Len(users) :
       /\ users[u].role = "user"
       /\ \A e \in 1..Len(employees) : employees[e].name # users[u].name

====
